---- MODULE Spec2Model ----
(***************************************************************************)
(* Model of the constellation-rust scheduler: the multi-threaded facade    *)
(* (MultiThreadedConstellation), the thread coordinator (MultiThreadHelper)*)
(* and its loop thread, the per-worker handle (InnerConstellation), the    *)
(* executor threads (ExecutorThread) and the per-worker EventQueue.        *)
(*                                                                         *)
(* Threads: the application thread that owns the facade, the coordinator  *)
(* loop thread, one executor thread per worker.  User activity bodies are  *)
(* the environment: inside a lifecycle call an activity may submit         *)
(* activities and send events through its worker handle, and it returns    *)
(* FINISH or SUSPEND as it likes.                                          *)
(*                                                                         *)
(* One action is one critical section (one lock held) of the code, or a    *)
(* run of critical sections that no other thread can tell apart from one.  *)
(***************************************************************************)
EXTENDS Integers, Sequences, FiniteSets, TLC

\* ------------------------------------------------------------ bounds
\* number of executor threads (config.number_of_threads)
NW == 2
\* activities submitted in one run (facade and activities together)
MaxActs == 2
\* events sent in one run
MaxEvents == 2
\* calls of the facade's done in one run
MaxDone == 2

\* events inserted into an EventQueue that is exercised on its own
MaxQueued == 3

\* array_length of the vector add example
VecLen == 10
\* examples/vector_add/main.rs: const THRESHOLD
THRESHOLD == 10

Workers == 0 .. (NW - 1)

\* the ComputeActivity instances that a vector of `len` elements takes
RECURSIVE tasks(_)
tasks(len) ==
    IF len < THRESHOLD THEN 1
    ELSE 1 + tasks(len \div 2) + tasks(len - (len \div 2))

\* MaxActs bounds the submits that START; the application's submit that is
\* under way when an activity starts the last one still completes, so one more
\* identifier can be issued.  The vector add example issues one identifier for
\* its collector and one for each ComputeActivity.
LastId == IF MaxActs > tasks(VecLen) THEN MaxActs ELSE tasks(VecLen)
Ids == 0 .. LastId
\* an identifier that no submit of the run ever returns
Unknown == LastId + 1
\* the destinations that events are addressed to
Dsts == (0 .. (MaxActs - 1)) \cup {Unknown}

\* Option<T>: <<>> is None, <<x>> is Some(x)
None == <<>>
Some(x) == <<x>>

\* ------------------------------------------------------------ HashMap
EmptyMap == [k \in {} |-> None]
map_insert(m, k, v) == [x \in (DOMAIN m) \cup {k} |-> IF x = k THEN v ELSE m[x]]
map_remove(m, k) == [x \in (DOMAIN m) \ {k} |-> m[x]]

\* ------------------------------------------------------------ EventQueue
\* data: HashMap<ActivityIdentifier, Vec<Box<Event>>>
insert(data, key, event) ==
    IF key \in DOMAIN data
    THEN [data EXCEPT ![key] = Append(@, event)]
    ELSE map_insert(data, key, <<event>>)

\* Vec::pop takes the LAST element of the vector
vec_pop(v) == [event |-> IF Len(v) = 0 THEN None ELSE Some(v[Len(v)]),
               rest  |-> IF Len(v) = 0 THEN v ELSE SubSeq(v, 1, Len(v) - 1)]

\* remove that leaves the emptied vector in the map
remove_keep(data, key) ==
    IF key \notin DOMAIN data
    THEN [event |-> None, data |-> data]
    ELSE LET p == vec_pop(data[key])
         IN  [event |-> p.event, data |-> [data EXCEPT ![key] = p.rest]]

\* remove: pops one event of `key`; erases the entry once its vector is empty
remove(data, key) ==
    IF key \notin DOMAIN data
    THEN [event |-> None, data |-> data]
    ELSE LET p == vec_pop(data[key])
         IN  [event |-> p.event,
              data  |-> IF Len(p.rest) = 0 THEN map_remove(data, key)
                                           ELSE [data EXCEPT ![key] = p.rest]]

contains_key(data, key) == key \in DOMAIN data
is_empty(data) == DOMAIN data = {}
keys(data) == DOMAIN data

\* ------------------------------------------------------------ identifiers
\* generate_activity_id that forgets the increment
generate_activity_id_stale(counter) == [ret |-> counter, counter |-> counter]

\* ConstellationIdentifier::generate_activity_id under the counter's mutex:
\* returns the counter and increments it
generate_activity_id(counter) == [ret |-> counter, counter |-> counter + 1]

\* ActivityWrapper::new: the wrapper with a freshly generated identifier; its
\* constellation_id is the ConstellationIdentifier it was created with, that of
\* worker thread_id
ActivityWrapper(thread_id, id, expects_events) ==
    [id |-> id, expects_events |-> expects_events, thread_id |-> thread_id]

\* Event::new(payload, src, dst); eid is the identity of the boxed event
Event(eid, src, dst) == [eid |-> eid, src |-> src, dst |-> dst]

VARIABLES
    activity_counter,        \* Arc<Mutex<u64>> shared by all ConstellationIdentifiers
    activities,              \* per worker: runnable map (ExecutorQueues.activities)
    activities_suspended,    \* per worker: suspended map
    event_queue,             \* per worker: EventQueue
    activities_from_threads, \* coordinator ingest queue (Injector) of activities
    events_from_threads,     \* coordinator ingest queue (Injector) of events
    local_events,            \* coordinator local waiting EventQueue
    exec,                    \* per worker: the executor thread's position and locals
    exec_signal,             \* per worker: channel InnerConstellation -> executor
    exec_reply,              \* per worker: channel executor -> InnerConstellation
    coord,                   \* the coordinator loop thread's position and locals
    coord_signal,            \* channel facade -> coordinator loop
    coord_reply,             \* channel coordinator loop -> facade
    facade,                  \* the application thread's position inside a facade call
    done_result,             \* result of the last done call that returned
    done_waiting,            \* history: identifiers that were suspended, with no event ever
                             \* sent to them, when the last done call started
    ndone,                   \* done calls made so far
    sent,                    \* history: the events created so far, in the order of their send
    issued,                  \* history: the wrappers created so far, in the order of their identifiers
    log                      \* history: per identifier, its lifecycle calls

vars == <<activity_counter, activities, activities_suspended, event_queue,
          activities_from_threads, events_from_threads, local_events,
          exec, exec_signal, exec_reply, coord, coord_signal, coord_reply,
          facade, done_result, done_waiting, ndone, sent, issued, log>>

queues == <<activities, activities_suspended, event_queue,
            activities_from_threads, events_from_threads, local_events>>
channels == <<exec_signal, exec_reply, coord_signal, coord_reply>>

ExecIdle(pc) == [pc |-> pc, activity |-> None, keys |-> {}, caller |-> "run"]
CoordAt(pc) == [pc |-> pc, ev |-> None, act |-> None, target |-> None,
                ret |-> "events", i |-> 0, shortest |-> 0, index |-> 0]
FacadeAt(pc) == [pc |-> pc, ev |-> None, expects |-> FALSE, target |-> None,
                 i |-> 0, shortest |-> 0, index |-> 0, x |-> 0]

\* the state after activate of a facade with thread_count workers: index i of
\* 0..thread_count gets its queues, its handle and its executor thread; an
\* index beyond that has no executor ("absent") and its queues are never used.
\* The coordinator loop thread exists ("idle") or not ("absent").
Activated(count) ==
    /\ activity_counter = 0
    /\ activities = [w \in Workers |-> EmptyMap]
    /\ activities_suspended = [w \in Workers |-> EmptyMap]
    /\ event_queue = [w \in Workers |-> EmptyMap]
    /\ activities_from_threads = <<>>
    /\ events_from_threads = <<>>
    /\ local_events = EmptyMap
    /\ exec = [w \in Workers |-> ExecIdle(IF w < count THEN "idle" ELSE "absent")]
    /\ exec_signal = [w \in Workers |-> <<>>]
    /\ exec_reply = [w \in Workers |-> <<>>]
    /\ coord \in {CoordAt("idle"), CoordAt("absent")}
    /\ coord_signal = <<>>
    /\ coord_reply = <<>>
    /\ facade = FacadeAt("idle")
    /\ done_result = "none"
    /\ done_waiting = {}
    /\ ndone = 0
    /\ sent = <<>>
    /\ issued = <<>>
    /\ log = [a \in Ids |-> <<>>]

\* MultiThreadedConstellation::activate with the configured number of workers
Init == Activated(NW) /\ coord.pc = "idle"

\* MultiThreadedConstellation::activate with number_of_threads = 1
InitOne == Activated(1) /\ coord.pc = "idle"

\* SingleThreadConstellation::activate: one worker, whose handle was made by
\* InnerConstellation::new, and no coordinator loop
InitSingle == Activated(1) /\ coord.pc = "absent"

\* InnerConstellation::multi_threaded: the handle was made by new_multithreaded;
\* only MultiThreadedConstellation::activate does that, and only it spawns the
\* coordinator loop
multi_threaded == coord.pc # "absent"

\* threads.len(): the workers that activate has created
thread_count == Cardinality({w \in Workers : exec[w].pc # "absent"})

\* ------------------------------------------------------------ helpers
Min(S) == CHOOSE m \in S : \A n \in S : m <= n

\* done holds the mutex of worker w's handle (threads[x].0) from its lock in
\* MultiThreadHelper::done until InnerConstellation::done returns
Locked(w) == facade.pc = "done_wait" /\ facade.x = w

\* the process has panicked on the application thread: nothing runs any more
Alive == facade.pc # "panic"

InStep(w) == exec[w].pc \in {"initialize", "process", "cleanup"}

\* the identifiers returned by submit so far
Submitted == {issued[i].id : i \in 1 .. Len(issued)}

\* a lifecycle call starts: the history gets the call, its result still open
Call(op, event) == [op |-> op, event |-> event, ret |-> "running"]
Returned(l, st) == [l EXCEPT ![Len(l)].ret = st]

\* an executor that starts its loop again after any activity left its hands
AfterActivity_loop(e) == ExecIdle("loop")

\* where the executor continues after an activity left its hands:
\* check_suspended_work goes on with the next key of its snapshot,
\* run_activity returns to the shutdown check of run
AfterActivity(e) ==
    IF e.caller = "check_suspended_work"
    THEN [ExecIdle(IF e.keys = {} THEN "work" ELSE "scan") EXCEPT !.keys = e.keys]
    ELSE ExecIdle("signal")

\* ------------------------------------------------------------ executor thread
\* The executor has nothing to do: no event waits for a suspended record, the
\* runnable map is empty, no control message waits.  Its loop then spins
\* through check_suspended_work, check_for_work and recv_timeout without
\* changing anything, so every position of the loop is reachable from every
\* other one: the model keeps such an executor at "idle", from where it finds
\* work exactly as the loop would from the position it happens to be in.
Quiet(w) ==
    /\ \A k \in DOMAIN activities_suspended[w] : ~contains_key(event_queue[w], k)
    /\ is_empty(activities[w])
    /\ exec_signal[w] = <<>>

At(w, e) == IF Quiet(w) THEN ExecIdle("idle") ELSE e

\* a check_for_work that leaves the runnable map alone while the suspended
\* map holds a record
check_for_work_exclusive(w) ==
    IF is_empty(activities[w]) \/ ~is_empty(activities_suspended[w])
    THEN /\ exec' = [exec EXCEPT ![w] = At(w, ExecIdle("signal"))]
         /\ UNCHANGED <<activities, log>>
    ELSE \E key \in DOMAIN activities[w] :
            LET activity == activities[w][key] IN
            /\ activities' = [activities EXCEPT ![w] = map_remove(@, key)]
            /\ exec' = [exec EXCEPT ![w] = [ExecIdle("initialize") EXCEPT
                                              !.activity = Some(activity)]]
            /\ log' = [log EXCEPT ![activity.id] = Append(@, Call("initialize", None))]

\* ExecutorThread::check_for_work followed by the call of initialize in
\* run_activity: take any one key of the runnable map (HashMap order)
check_for_work(w) ==
    IF is_empty(activities[w])
    THEN /\ exec' = [exec EXCEPT ![w] = At(w, ExecIdle("signal"))]
         /\ UNCHANGED <<activities, log>>
    ELSE \E key \in DOMAIN activities[w] :
            LET activity == activities[w][key] IN
            /\ activities' = [activities EXCEPT ![w] = map_remove(@, key)]
            /\ exec' = [exec EXCEPT ![w] = [ExecIdle("initialize") EXCEPT
                                              !.activity = Some(activity)]]
            /\ log' = [log EXCEPT ![activity.id] = Append(@, Call("initialize", None))]

\* run, top of the loop: with suspended work, snapshot its keys for
\* check_suspended_work; without, go straight to check_for_work
E_Loop(w) ==
    /\ Alive /\ exec[w].pc = "loop"
    /\ IF ~is_empty(activities_suspended[w])
       THEN /\ exec' = [exec EXCEPT ![w] = At(w, [ExecIdle("scan") EXCEPT
                                  !.keys = DOMAIN activities_suspended[w]])]
            /\ UNCHANGED <<activities, log>>
       ELSE check_for_work(w)
    /\ UNCHANGED <<activity_counter, activities_suspended, event_queue,
                   activities_from_threads, events_from_threads, local_events,
                   channels, coord, facade, done_result, done_waiting, ndone, sent, issued>>

\* run, after check_suspended_work
E_Work(w) ==
    /\ Alive
    /\ \/ exec[w].pc = "work"
       \/ exec[w].pc = "idle" /\ ~is_empty(activities[w])
    /\ check_for_work(w)
    /\ UNCHANGED <<activity_counter, activities_suspended, event_queue,
                   activities_from_threads, events_from_threads, local_events,
                   channels, coord, facade, done_result, done_waiting, ndone, sent, issued>>

\* check_suspended_work that hands the absence marker to process
scan_event_none(r) == None

\* the event handed to process by check_suspended_work for `key`
scan_event(r) == r.event

\* check_suspended_work, one key of the snapshot: remove an event of the key;
\* if there is one, remove the suspended record and call process with it
scan_key(w, key, rest) ==
        LET r == remove(event_queue[w], key) IN
        IF r.event = None
        THEN /\ exec' = [exec EXCEPT ![w] = At(w,
                    [ExecIdle(IF rest = {} THEN "work" ELSE "scan") EXCEPT !.keys = rest])]
             /\ UNCHANGED <<event_queue, activities_suspended, log>>
        ELSE IF key \in DOMAIN activities_suspended[w]
        THEN LET activity == activities_suspended[w][key] IN
             /\ event_queue' = [event_queue EXCEPT ![w] = r.data]
             /\ activities_suspended' = [activities_suspended EXCEPT ![w] = map_remove(@, key)]
             /\ exec' = [exec EXCEPT ![w] = [pc |-> "process", activity |-> Some(activity),
                                            keys |-> rest, caller |-> "check_suspended_work"]]
             /\ log' = [log EXCEPT ![activity.id] = Append(@, Call("process", scan_event(r)))]
        ELSE \* "for thread safety": the record is gone, put the event back
             /\ event_queue' = [event_queue EXCEPT ![w] = insert(r.data, key, r.event[1])]
             /\ exec' = [exec EXCEPT ![w] =
                    [ExecIdle(IF rest = {} THEN "work" ELSE "scan") EXCEPT !.keys = rest]]
             /\ UNCHANGED <<activities_suspended, log>>

\* From "idle" the scan is at any key that has an event, with any of the other
\* suspended keys still ahead of it in the snapshot.
E_Scan(w) ==
    /\ Alive
    /\ \/ /\ exec[w].pc = "scan"
          /\ \E key \in exec[w].keys : scan_key(w, key, exec[w].keys \ {key})
       \/ /\ exec[w].pc = "idle"
          /\ \E key \in DOMAIN activities_suspended[w] :
                /\ contains_key(event_queue[w], key)
                /\ \E rest \in SUBSET (DOMAIN activities_suspended[w] \ {key}) :
                      scan_key(w, key, rest)
    /\ UNCHANGED <<activity_counter, activities,
                   activities_from_threads, events_from_threads, local_events,
                   channels, coord, facade, done_result, done_waiting, ndone, sent, issued>>

\* SUSPEND that puts the record back into the runnable map
suspend_runnable(w, activity) ==
    /\ activities' = [activities EXCEPT ![w] = map_insert(@, activity.id, activity)]
    /\ UNCHANGED activities_suspended

\* SUSPEND that files the record under the identifier that follows its own
suspend_rekeyed(w, activity) ==
    /\ activities_suspended' = [activities_suspended EXCEPT
                                  ![w] = map_insert(@, (activity.id + 1) % (LastId + 1), activity)]
    /\ UNCHANGED activities

\* where a record goes when a lifecycle call returned SUSPEND
suspend(w, activity) ==
    /\ activities_suspended' = [activities_suspended EXCEPT
                                  ![w] = map_insert(@, activity.id, activity)]
    /\ UNCHANGED activities

\* run_activity that calls process with the absence marker when an activity
\* that expects events finds none in the event queue
initialize_returned_none(w, activity, st) ==
    IF st = "SUSPEND"
    THEN /\ suspend(w, activity)
         /\ exec' = [exec EXCEPT ![w] = AfterActivity(exec[w])]
         /\ log' = [log EXCEPT ![activity.id] = Returned(@, st)]
         /\ UNCHANGED event_queue
    ELSE LET r == IF activity.expects_events
                  THEN remove(event_queue[w], activity.id)
                  ELSE [event |-> None, data |-> event_queue[w]]
         IN
         /\ event_queue' = [event_queue EXCEPT ![w] = r.data]
         /\ exec' = [exec EXCEPT ![w].pc = "process"]
         /\ log' = [log EXCEPT ![activity.id] =
                       Append(Returned(@, st), Call("process", r.event))]
         /\ UNCHANGED <<activities, activities_suspended>>

\* run_activity that calls cleanup right after initialize returned FINISH when
\* the activity expects no events
initialize_returned_cleanup(w, activity, st) ==
    IF st = "SUSPEND" \/ (activity.expects_events /\ remove(event_queue[w], activity.id).event = None)
    THEN /\ suspend(w, activity)
         /\ exec' = [exec EXCEPT ![w] = AfterActivity(exec[w])]
         /\ log' = [log EXCEPT ![activity.id] = Returned(@, st)]
         /\ UNCHANGED event_queue
    ELSE IF activity.expects_events
    THEN LET r == remove(event_queue[w], activity.id) IN
         /\ event_queue' = [event_queue EXCEPT ![w] = r.data]
         /\ exec' = [exec EXCEPT ![w].pc = "process"]
         /\ log' = [log EXCEPT ![activity.id] =
                       Append(Returned(@, st), Call("process", r.event))]
         /\ UNCHANGED <<activities, activities_suspended>>
    ELSE /\ exec' = [exec EXCEPT ![w].pc = "cleanup"]
         /\ log' = [log EXCEPT ![activity.id] =
                       Append(Returned(@, st), Call("cleanup", None))]
         /\ UNCHANGED <<activities, activities_suspended, event_queue>>

\* run_activity after initialize returned `st`
initialize_returned(w, activity, st) ==
    IF st = "SUSPEND"
    THEN /\ suspend(w, activity)
         /\ exec' = [exec EXCEPT ![w] = AfterActivity(exec[w])]
         /\ log' = [log EXCEPT ![activity.id] = Returned(@, st)]
         /\ UNCHANGED event_queue
    ELSE IF activity.expects_events
    THEN LET r == remove(event_queue[w], activity.id) IN
         IF r.event = None
         THEN /\ suspend(w, activity)
              /\ exec' = [exec EXCEPT ![w] = AfterActivity(exec[w])]
              /\ log' = [log EXCEPT ![activity.id] = Returned(@, st)]
              /\ UNCHANGED event_queue
         ELSE /\ event_queue' = [event_queue EXCEPT ![w] = r.data]
              /\ exec' = [exec EXCEPT ![w].pc = "process"]
              /\ log' = [log EXCEPT ![activity.id] =
                            Append(Returned(@, st), Call("process", r.event))]
              /\ UNCHANGED <<activities, activities_suspended>>
    ELSE /\ exec' = [exec EXCEPT ![w].pc = "process"]
         /\ log' = [log EXCEPT ![activity.id] =
                       Append(Returned(@, st), Call("process", None))]
         /\ UNCHANGED <<activities, activities_suspended, event_queue>>

\* process that drops the record on FINISH without calling cleanup
process_returned_drop(w, activity, st) ==
    /\ IF st = "SUSPEND"
       THEN suspend(w, activity)
       ELSE UNCHANGED <<activities, activities_suspended>>
    /\ exec' = [exec EXCEPT ![w] = AfterActivity(exec[w])]
    /\ log' = [log EXCEPT ![activity.id] = Returned(@, st)]
    /\ UNCHANGED event_queue

\* ExecutorThread::process after the activity's process returned `st`
process_returned(w, activity, st) ==
    IF st = "SUSPEND"
    THEN /\ suspend(w, activity)
         /\ exec' = [exec EXCEPT ![w] = AfterActivity(exec[w])]
         /\ log' = [log EXCEPT ![activity.id] = Returned(@, st)]
         /\ UNCHANGED event_queue
    ELSE /\ exec' = [exec EXCEPT ![w].pc = "cleanup"]
         /\ log' = [log EXCEPT ![activity.id] =
                       Append(Returned(@, st), Call("cleanup", None))]
         /\ UNCHANGED <<activities, activities_suspended, event_queue>>

\* cleanup returned: the record is dropped
cleanup_returned(w, activity) ==
    /\ exec' = [exec EXCEPT ![w] = AfterActivity(exec[w])]
    /\ log' = [log EXCEPT ![activity.id] = Returned(@, "returned")]
    /\ UNCHANGED <<activities, activities_suspended, event_queue>>

\* the running lifecycle call of worker w's activity returns
A_Return(w) ==
    /\ Alive /\ InStep(w)
    /\ LET activity == exec[w].activity[1] IN
       \/ /\ exec[w].pc = "initialize"
          /\ \E st \in {"FINISH", "SUSPEND"} : initialize_returned(w, activity, st)
       \/ /\ exec[w].pc = "process"
          /\ \E st \in {"FINISH", "SUSPEND"} : process_returned(w, activity, st)
       \/ /\ exec[w].pc = "cleanup"
          /\ cleanup_returned(w, activity)
    /\ UNCHANGED <<activity_counter,
                   activities_from_threads, events_from_threads, local_events,
                   channels, coord, facade, done_result, done_waiting, ndone, sent, issued>>

\* queues_empty that does not look at the event queue
queues_empty_maps(w) ==
    /\ is_empty(activities[w])
    /\ is_empty(activities_suspended[w])

\* ExecutorThread::queues_empty
queues_empty(w) ==
    /\ is_empty(activities[w])
    /\ is_empty(activities_suspended[w])
    /\ is_empty(event_queue[w])

\* run, the shutdown check: recv_timeout on the control channel
E_Signal(w) ==
    /\ Alive
    /\ \/ exec[w].pc = "signal"
       \/ exec[w].pc = "idle" /\ exec_signal[w] # <<>>
    /\ IF exec_signal[w] = <<>>
       THEN /\ exec' = [exec EXCEPT ![w] = At(w, ExecIdle("loop"))]
            /\ UNCHANGED <<exec_signal, exec_reply>>
       ELSE /\ exec_signal' = [exec_signal EXCEPT ![w] = Tail(@)]
            /\ IF ~Head(exec_signal[w])
               THEN /\ exec' = [exec EXCEPT ![w] = ExecIdle("loop")]
                    /\ UNCHANGED exec_reply
               ELSE IF queues_empty(w)
               THEN /\ exec_reply' = [exec_reply EXCEPT ![w] = Append(@, TRUE)]
                    /\ exec' = [exec EXCEPT ![w] = ExecIdle("exited")]
               ELSE /\ exec_reply' = [exec_reply EXCEPT ![w] = Append(@, FALSE)]
                    /\ exec' = [exec EXCEPT ![w] = ExecIdle("loop")]
    /\ UNCHANGED <<activity_counter, queues, coord, coord_signal, coord_reply,
                   facade, done_result, done_waiting, ndone, sent, issued, log>>

\* ------------------------------------------------------------ worker handle
\* InnerConstellation::submit (multi_threaded): wrap, then ThreadHelper::submit
A_Submit(w) ==
    /\ multi_threaded
    /\ Alive /\ InStep(w) /\ ~Locked(w)
    /\ activity_counter < MaxActs
    /\ \E expects_events \in BOOLEAN :
        LET g == generate_activity_id(activity_counter)
            activity_wrapper == ActivityWrapper(w, g.ret, expects_events)
        IN
        /\ activity_counter' = g.counter
        /\ issued' = Append(issued, activity_wrapper)
        /\ activities_from_threads' = Append(activities_from_threads, activity_wrapper)
    /\ UNCHANGED <<activities, activities_suspended, event_queue,
                   events_from_threads, local_events, exec, channels, coord,
                   facade, done_result, done_waiting, ndone, sent, log>>

\* a send that always hands the event to the coordinator
inner_send_forward(w, e) ==
    /\ events_from_threads' = Append(events_from_threads, e)
    /\ UNCHANGED event_queue

\* InnerConstellation::send (multi_threaded): keep the event when the
\* destination is in this worker's maps, else ThreadHelper::send
inner_send(w, e) ==
    LET aid == e.dst IN
    IF contains_key(activities[w], aid) \/ contains_key(activities_suspended[w], aid)
    THEN /\ event_queue' = [event_queue EXCEPT ![w] = insert(@, aid, e)]
         /\ UNCHANGED events_from_threads
    ELSE /\ events_from_threads' = Append(events_from_threads, e)
         /\ UNCHANGED event_queue

A_Send(w) ==
    /\ multi_threaded
    /\ Alive /\ InStep(w) /\ ~Locked(w)
    /\ Len(sent) < MaxEvents
    /\ \E dst \in Dsts :
        LET e == Event(Len(sent) + 1, Some(exec[w].activity[1].id), dst) IN
        /\ inner_send(w, e)
        /\ sent' = Append(sent, e)
    /\ UNCHANGED <<activity_counter, activities, activities_suspended,
                   activities_from_threads, local_events, exec, channels, coord,
                   facade, done_result, done_waiting, ndone, issued, log>>


\* ------------------------------------------------------------ coordinator
\* distribute_event that gives worker 0 every event whose destination some
\* worker holds
scan_threads_first(key) ==
    LET holders == {i \in 0 .. (thread_count - 1) :
                        \/ contains_key(activities[i], key)
                        \/ contains_key(activities_suspended[i], key)}
    IN  IF holders = {} THEN None ELSE Some(0)

\* distribute_event, the scan: the first worker whose runnable or suspended
\* map contains the key
scan_threads(key) ==
    LET holders == {i \in 0 .. (thread_count - 1) :
                        \/ contains_key(activities[i], key)
                        \/ contains_key(activities_suspended[i], key)}
    IN  IF holders = {} THEN None ELSE Some(Min(holders))

\* distribute_event that drops an event no worker owns
distribute_insert_drop(target, event) ==
    IF target = None
    THEN UNCHANGED <<local_events, event_queue>>
    ELSE /\ event_queue' = [event_queue EXCEPT ![target[1]] = insert(@, event.dst, event)]
         /\ UNCHANGED local_events

\* distribute_event, the insertion that follows the scan
distribute_insert(target, event) ==
    IF target = None
    THEN /\ local_events' = insert(local_events, event.dst, event)
         /\ UNCHANGED event_queue
    ELSE /\ event_queue' = [event_queue EXCEPT ![target[1]] = insert(@, event.dst, event)]
         /\ UNCHANGED local_events

\* get_thread_with_least_work, the loop body for worker i.  `shortest` starts
\* at u64::max_value(), which every length is below: worker 0 always wins first
length(i) == Cardinality(DOMAIN activities[i]) + Cardinality(DOMAIN activities_suspended[i])

\* get_thread_with_least_work that compares with <=: ties go to the last worker
least_work_step_last(l) ==
    IF l.i = 0 \/ length(l.i) <= l.shortest
    THEN [l EXCEPT !.index = l.i, !.shortest = length(l.i), !.i = l.i + 1]
    ELSE [l EXCEPT !.i = l.i + 1]

least_work_step(l) ==
    IF l.i = 0 \/ length(l.i) < l.shortest
    THEN [l EXCEPT !.index = l.i, !.shortest = length(l.i), !.i = l.i + 1]
    ELSE [l EXCEPT !.i = l.i + 1]

\* The coordinator loop has nothing to do: both ingest queues and the local
\* waiting queue are empty and no shutdown message waits.  Its loop then goes
\* round without changing anything; the model keeps it at "idle", from where
\* it finds the first input that arrives as the loop would from the position
\* it happens to be in.
CoordQuiet ==
    /\ events_from_threads = <<>>
    /\ activities_from_threads = <<>>
    /\ is_empty(local_events)
    /\ coord_signal = <<>>

CoordNext(pc) == CoordAt(IF CoordQuiet THEN "idle" ELSE pc)

\* run: handle_thread_events, one turn of its steal loop (steal and scan);
\* an empty queue ends the loop
C_Events ==
    /\ Alive
    /\ \/ coord.pc = "events"
       \/ coord.pc = "idle" /\ events_from_threads # <<>>
    /\ IF events_from_threads = <<>>
       THEN /\ coord' = CoordNext("acts")
            /\ UNCHANGED events_from_threads
       ELSE LET e == Head(events_from_threads) IN
            /\ events_from_threads' = Tail(events_from_threads)
            /\ coord' = [CoordAt("ev_insert") EXCEPT !.ev = Some(e),
                            !.target = scan_threads(e.dst), !.ret = "events"]
    /\ UNCHANGED <<activity_counter, activities, activities_suspended, event_queue,
                   activities_from_threads, local_events, exec, channels,
                   facade, done_result, done_waiting, ndone, sent, issued, log>>

\* distribute_event, the insertion
C_EvInsert ==
    /\ Alive /\ coord.pc = "ev_insert"
    /\ distribute_insert(coord.target, coord.ev[1])
    /\ coord' = CoordAt(coord.ret)
    /\ UNCHANGED <<activity_counter, activities, activities_suspended,
                   activities_from_threads, events_from_threads, exec, channels,
                   facade, done_result, done_waiting, ndone, sent, issued, log>>

\* run: handle_thread_activity steals ONE activity and starts the scan of
\* get_thread_with_least_work
C_Acts ==
    /\ Alive
    /\ \/ coord.pc = "acts"
       \/ coord.pc = "idle" /\ activities_from_threads # <<>>
    /\ IF activities_from_threads = <<>>
       THEN /\ coord' = CoordNext("local")
            /\ UNCHANGED activities_from_threads
       ELSE /\ activities_from_threads' = Tail(activities_from_threads)
            /\ coord' = least_work_step([CoordAt("act_scan") EXCEPT
                                           !.act = Some(Head(activities_from_threads))])
    /\ UNCHANGED <<activity_counter, activities, activities_suspended, event_queue,
                   events_from_threads, local_events, exec, channels,
                   facade, done_result, done_waiting, ndone, sent, issued, log>>

C_ActScan ==
    /\ Alive /\ coord.pc = "act_scan" /\ coord.i < thread_count
    /\ coord' = least_work_step(coord)
    /\ UNCHANGED <<activity_counter, queues, exec, channels,
                   facade, done_result, done_waiting, ndone, sent, issued, log>>

\* distribute_activity that inserts the record into every worker's runnable map
distribute_activity_insert_all(index, activity_trait) ==
    activities' = [w \in Workers |-> map_insert(activities[w], activity_trait.id, activity_trait)]

\* distribute_activity that also leaves a copy of the record with the next worker
distribute_activity_insert_copy(index, activity_trait) ==
    activities' = [w \in Workers |->
                      IF w = index \/ w = (index + 1) % NW
                      THEN map_insert(activities[w], activity_trait.id, activity_trait)
                      ELSE activities[w]]

\* distribute_activity, the insertion under the activity's own identifier
distribute_activity_insert(index, activity_trait) ==
    activities' = [activities EXCEPT ![index] = map_insert(@, activity_trait.id, activity_trait)]

C_ActInsert ==
    /\ Alive /\ coord.pc = "act_scan" /\ coord.i = thread_count
    /\ distribute_activity_insert(coord.index, coord.act[1])
    /\ coord' = CoordAt("act_event")
    /\ UNCHANGED <<activity_counter, activities_suspended, event_queue,
                   activities_from_threads, events_from_threads, local_events,
                   exec, channels, facade, done_result, done_waiting, ndone, sent, issued, log>>

\* handle_thread_activity, second half: steal one event and distribute it
C_ActEvent ==
    /\ Alive /\ coord.pc = "act_event"
    /\ IF events_from_threads = <<>>
       THEN /\ coord' = CoordNext("local")
            /\ UNCHANGED events_from_threads
       ELSE LET e == Head(events_from_threads) IN
            /\ events_from_threads' = Tail(events_from_threads)
            /\ coord' = [CoordAt("ev_insert") EXCEPT !.ev = Some(e),
                            !.target = scan_threads(e.dst), !.ret = "local"]
    /\ UNCHANGED <<activity_counter, activities, activities_suspended, event_queue,
                   activities_from_threads, local_events, exec, channels,
                   facade, done_result, done_waiting, ndone, sent, issued, log>>

\* run: handle_local_events takes one event of the first key (HashMap order)
\* of the local waiting queue and distributes it again
C_Local ==
    /\ Alive
    /\ \/ coord.pc = "local"
       \/ coord.pc = "idle" /\ ~is_empty(local_events)
    /\ IF is_empty(local_events)
       THEN /\ coord' = CoordNext("shutdown")
            /\ UNCHANGED local_events
       ELSE \E key \in keys(local_events) :
            LET r == remove(local_events, key) IN
            /\ local_events' = r.data
            /\ coord' = [CoordAt("ev_insert") EXCEPT !.ev = r.event,
                            !.target = scan_threads(r.event[1].dst), !.ret = "shutdown"]
    /\ UNCHANGED <<activity_counter, activities, activities_suspended, event_queue,
                   activities_from_threads, events_from_threads, exec, channels,
                   facade, done_result, done_waiting, ndone, sent, issued, log>>

\* run: the shutdown check.  The `return` of the code sits inside the closure
\* given to map: it leaves the closure, never the loop, so after its reply the
\* loop sleeps and goes on
C_Shutdown ==
    /\ Alive
    /\ \/ coord.pc = "shutdown"
       \/ coord.pc = "idle" /\ coord_signal # <<>>
    /\ IF coord_signal = <<>>
       THEN /\ coord' = CoordNext("events")
            /\ UNCHANGED <<coord_signal, coord_reply>>
       ELSE /\ coord_signal' = Tail(coord_signal)
            /\ coord_reply' = IF Head(coord_signal) THEN Append(coord_reply, TRUE)
                                                    ELSE coord_reply
            /\ coord' = CoordAt("events")
    /\ UNCHANGED <<activity_counter, queues, exec, exec_signal, exec_reply,
                   facade, done_result, done_waiting, ndone, sent, issued, log>>

\* ------------------------------------------------------------ facade
\* MultiThreadHelper::submit: the scan of get_thread_with_least_work starts
F_Submit ==
    /\ facade.pc = "idle"
    /\ activity_counter < MaxActs
    /\ \E expects_events \in BOOLEAN :
        facade' = least_work_step([FacadeAt("submit") EXCEPT !.expects = expects_events])
    /\ done_result' = "none"
    /\ done_waiting' = {}
    /\ UNCHANGED <<activity_counter, queues, exec, channels, coord,
                   ndone, sent, issued, log>>

F_SubmitScan ==
    /\ facade.pc = "submit" /\ facade.i < thread_count
    /\ facade' = least_work_step(facade)
    /\ UNCHANGED <<activity_counter, queues, exec, channels, coord,
                   done_result, done_waiting, ndone, sent, issued, log>>

\* MultiThreadHelper::submit: wrap the activity, insert it into the chosen
\* worker's runnable map under its identifier, return the identifier
F_SubmitInsert ==
    /\ facade.pc = "submit" /\ facade.i = thread_count
    /\ LET g == generate_activity_id(activity_counter)
           activity_wrapper == ActivityWrapper(facade.index, g.ret, facade.expects)
       IN
       /\ activity_counter' = g.counter
       /\ issued' = Append(issued, activity_wrapper)
       /\ distribute_activity_insert(facade.index, activity_wrapper)
    /\ facade' = FacadeAt("idle")
    /\ UNCHANGED <<activities_suspended, event_queue, activities_from_threads,
                   events_from_threads, local_events, exec, channels, coord,
                   done_result, done_waiting, ndone, sent, log>>

\* MultiThreadHelper::send: distribute_event on the application thread, the scan
F_Send ==
    /\ facade.pc = "idle"
    /\ Len(sent) < MaxEvents
    /\ \E dst \in Dsts :
        LET e == Event(Len(sent) + 1, None, dst) IN
        /\ sent' = Append(sent, e)
        /\ facade' = [FacadeAt("send") EXCEPT !.ev = Some(e), !.target = scan_threads(dst)]
    /\ done_result' = "none"
    /\ done_waiting' = {}
    /\ UNCHANGED <<activity_counter, queues, exec, channels, coord,
                   ndone, issued, log>>

F_SendInsert ==
    /\ facade.pc = "send"
    /\ distribute_insert(facade.target, facade.ev[1])
    /\ facade' = FacadeAt("idle")
    /\ UNCHANGED <<activity_counter, activities, activities_suspended,
                   activities_from_threads, events_from_threads, exec, channels,
                   coord, done_result, done_waiting, ndone, sent, issued, log>>


\* InnerConstellation::work_left
work_left(x) ==
    ~ (/\ is_empty(activities[x])
       /\ is_empty(activities_suspended[x])
       /\ is_empty(event_queue[x]))

\* identifiers in some suspended map to which no event was ever sent
SuspendedNoEvent ==
    {c \in Ids : /\ \E w \in Workers : c \in DOMAIN activities_suspended[w]
                 /\ \A i \in 1 .. Len(sent) : sent[i].dst # c}

\* InnerConstellation::done of worker x, called by MultiThreadHelper::done
\* with the handle's mutex held, up to the wait for the executor's reply.
\* Sending on the control channel of an executor that has exited (its Receiver
\* is dropped) fails, and the expect panics.
inner_done(x) ==
    IF work_left(x)
    THEN /\ facade' = FacadeAt("idle")
         /\ done_result' = "false"
         /\ UNCHANGED exec_signal
    ELSE IF exec[x].pc = "exited"
    THEN /\ facade' = FacadeAt("panic")
         /\ done_result' = "panic"
         /\ UNCHANGED exec_signal
    ELSE /\ exec_signal' = [exec_signal EXCEPT ![x] = Append(@, TRUE)]
         /\ facade' = [FacadeAt("done_wait") EXCEPT !.x = x]
         /\ done_result' = "none"

\* MultiThreadedConstellation::done -> MultiThreadHelper::done, worker 0
F_Done ==
    /\ facade.pc = "idle"
    /\ ndone < MaxDone
    /\ ndone' = ndone + 1
    /\ done_waiting' = SuspendedNoEvent
    /\ inner_done(0)
    /\ UNCHANGED <<activity_counter, queues, exec, exec_reply, coord,
                   coord_signal, coord_reply, sent, issued, log>>

\* InnerConstellation::done got the executor's reply: "work left" ends done
\* with Ok(false); "drained" lets MultiThreadHelper::done go on with the next
\* worker, and after the last one the facade signals the coordinator loop
F_DoneReply ==
    /\ facade.pc = "done_wait"
    /\ exec_reply[facade.x] # <<>>
    /\ exec_reply' = [exec_reply EXCEPT ![facade.x] = Tail(@)]
    /\ IF ~Head(exec_reply[facade.x])
       THEN /\ facade' = FacadeAt("idle")
            /\ done_result' = "false"
            /\ UNCHANGED <<exec_signal, coord_signal>>
       ELSE IF facade.x + 1 < thread_count
       THEN /\ inner_done(facade.x + 1)
            /\ UNCHANGED coord_signal
       ELSE /\ coord_signal' = Append(coord_signal, TRUE)
            /\ facade' = FacadeAt("done_coord")
            /\ UNCHANGED <<done_result, exec_signal>>
    /\ UNCHANGED <<activity_counter, queues, exec, coord, coord_reply,
                   done_waiting, ndone, sent, issued, log>>

\* recv_timeout(100 s) expires: only an executor that is inside a lifecycle
\* call (a long step, or a step blocked on the handle's mutex that done holds)
\* stays silent that long.  done returns Err; the signal stays in the channel.
F_DoneTimeout ==
    /\ facade.pc = "done_wait"
    /\ exec_reply[facade.x] = <<>>
    /\ InStep(facade.x)
    /\ facade' = FacadeAt("idle")
    /\ done_result' = "error"
    /\ UNCHANGED <<activity_counter, queues, exec, channels, coord,
                   done_waiting, ndone, sent, issued, log>>

\* MultiThreadedConstellation::done, the coordinator loop's reply.  The facade
\* keeps no record of the shutdown: thread_handler and signal_thread_handler
\* stay Some, and submit, send and done can be called again.
F_DoneCoord ==
    /\ facade.pc = "done_coord"
    /\ coord_reply # <<>>
    /\ coord_reply' = Tail(coord_reply)
    /\ facade' = FacadeAt("idle")
    /\ done_result' = IF Head(coord_reply) THEN "true" ELSE "error"
    /\ UNCHANGED <<activity_counter, queues, exec, exec_signal, exec_reply,
                   coord, coord_signal, done_waiting, ndone, sent, issued, log>>

\* ------------------------------------------------------------ single-worker facade
\* SingleThreadConstellation::submit -> InnerConstellation::submit with
\* multi_threaded = false: wrap and insert into the worker's own runnable map,
\* all under the handle's mutex
single_submit(expects_events) ==
    LET g == generate_activity_id(activity_counter)
        activity_wrapper == ActivityWrapper(0, g.ret, expects_events)
    IN
    /\ activity_counter' = g.counter
    /\ issued' = Append(issued, activity_wrapper)
    /\ activities' = [activities EXCEPT ![0] = map_insert(@, g.ret, activity_wrapper)]

\* a send that loses the event
single_send_lost(e) ==
    /\ sent' = Append(sent, e)
    /\ UNCHANGED event_queue

\* InnerConstellation::send with multi_threaded = false: the event goes into
\* the worker's own event queue, whether or not the destination is known
single_send(e) ==
    /\ event_queue' = [event_queue EXCEPT ![0] = insert(@, e.dst, e)]
    /\ sent' = Append(sent, e)

\* the application's submit
S_Submit ==
    /\ facade.pc = "idle"
    /\ activity_counter < MaxActs
    /\ \E expects_events \in BOOLEAN : single_submit(expects_events)
    /\ done_result' = "none"
    /\ done_waiting' = {}
    /\ UNCHANGED <<activities_suspended, event_queue, activities_from_threads,
                   events_from_threads, local_events, exec, channels, coord,
                   facade, ndone, sent, log>>

\* the application's send
S_Send ==
    /\ facade.pc = "idle"
    /\ Len(sent) < MaxEvents
    /\ \E dst \in Dsts : single_send(Event(Len(sent) + 1, None, dst))
    /\ done_result' = "none"
    /\ done_waiting' = {}
    /\ UNCHANGED <<activity_counter, activities, activities_suspended,
                   activities_from_threads, events_from_threads, local_events,
                   exec, channels, coord, facade, ndone, issued, log>>

\* SingleThreadConstellation::done -> InnerConstellation::done
S_Done ==
    /\ facade.pc = "idle"
    /\ ndone < MaxDone
    /\ ndone' = ndone + 1
    /\ done_waiting' = SuspendedNoEvent
    /\ inner_done(0)
    /\ UNCHANGED <<activity_counter, queues, exec, exec_reply, coord,
                   coord_signal, coord_reply, sent, issued, log>>

\* InnerConstellation::done got the executor's reply, which is done's result
S_DoneReply ==
    /\ facade.pc = "done_wait"
    /\ exec_reply[0] # <<>>
    /\ exec_reply' = [exec_reply EXCEPT ![0] = Tail(@)]
    /\ facade' = FacadeAt("idle")
    /\ done_result' = IF Head(exec_reply[0]) THEN "true" ELSE "false"
    /\ UNCHANGED <<activity_counter, queues, exec, exec_signal, coord,
                   coord_signal, coord_reply, done_waiting, ndone, sent, issued, log>>

\* a running activity submits through the handle it was given
SA_Submit(w) ==
    /\ ~multi_threaded
    /\ Alive /\ InStep(w) /\ ~Locked(w)
    /\ activity_counter < MaxActs
    /\ \E expects_events \in BOOLEAN : single_submit(expects_events)
    /\ UNCHANGED <<activities_suspended, event_queue, activities_from_threads,
                   events_from_threads, local_events, exec, channels, coord,
                   facade, done_result, done_waiting, ndone, sent, log>>

\* a running activity sends through the handle it was given
SA_Send(w) ==
    /\ ~multi_threaded
    /\ Alive /\ InStep(w) /\ ~Locked(w)
    /\ Len(sent) < MaxEvents
    /\ \E dst \in Dsts :
          single_send(Event(Len(sent) + 1, Some(exec[w].activity[1].id), dst))
    /\ UNCHANGED <<activity_counter, activities, activities_suspended,
                   activities_from_threads, events_from_threads, local_events,
                   exec, channels, coord, facade, done_result, done_waiting,
                   ndone, issued, log>>

\* ------------------------------------------------------------ specification
Executor(w) == E_Loop(w) \/ E_Work(w) \/ E_Scan(w) \/ E_Signal(w)
Activity(w) == A_Return(w) \/ A_Submit(w) \/ A_Send(w)
Coordinator == C_Events \/ C_EvInsert \/ C_Acts \/ C_ActScan \/ C_ActInsert
                 \/ C_ActEvent \/ C_Local \/ C_Shutdown
Application == F_Submit \/ F_SubmitScan \/ F_SubmitInsert \/ F_Send \/ F_SendInsert
                 \/ F_Done \/ F_DoneReply \/ F_DoneTimeout \/ F_DoneCoord

Next ==
    \/ \E w \in Workers : Executor(w) \/ Activity(w)
    \/ Coordinator
    \/ Application

Spec == Init /\ [][Next]_vars



\* ------------------------------------------------------------ scenarios
\* Submissions: the application and running activities both submit; the
\* application sends at most one event.
NextSubmit ==
    \/ \E w \in Workers : Executor(w) \/ A_Return(w) \/ A_Submit(w)
    \/ Coordinator
    \/ F_Submit \/ F_SubmitScan \/ F_SubmitInsert
    \/ F_Send /\ sent = <<>>
    \/ F_SendInsert

SpecSubmit == Init /\ [][NextSubmit]_vars

\* Events: the application submits; the application and running activities
\* send.  No activity reaches the coordinator's ingest queue.
NextSend ==
    \/ \E w \in Workers : Executor(w) \/ A_Return(w) \/ A_Send(w)
    \/ C_Events \/ C_EvInsert \/ C_Acts \/ C_Local \/ C_Shutdown
    \/ F_Submit \/ F_SubmitScan \/ F_SubmitInsert \/ F_Send \/ F_SendInsert

SpecSend == Init /\ [][NextSend]_vars

\* Parked events: only the application submits and sends.  Every thread keeps
\* taking steps: the coordinator loop and the executor loops never block, a
\* lifecycle call returns, and a call of the application that has started
\* completes.  Which key of a HashMap comes first is not a matter of fairness.
NextParked ==
    \/ \E w \in Workers : Executor(w) \/ A_Return(w)
    \/ C_Events \/ C_EvInsert \/ C_Acts \/ C_Local \/ C_Shutdown
    \/ F_Submit \/ F_SubmitScan \/ F_SubmitInsert \/ F_Send \/ F_SendInsert

SpecParked ==
    /\ Init /\ [][NextParked]_vars
    /\ WF_vars(C_Events \/ C_EvInsert \/ C_Acts \/ C_Local \/ C_Shutdown)
    /\ \A w \in Workers : WF_vars(Executor(w)) /\ WF_vars(A_Return(w))
    /\ WF_vars(F_SubmitScan \/ F_SubmitInsert \/ F_SendInsert)

\* Shutdown: the application and running activities submit, and the
\* application calls done; nobody sends.
NextDone ==
    \/ \E w \in Workers : Executor(w) \/ A_Return(w) \/ A_Submit(w)
    \/ C_Events \/ C_Acts \/ C_ActScan \/ C_ActInsert \/ C_ActEvent \/ C_Local \/ C_Shutdown
    \/ F_Submit \/ F_SubmitScan \/ F_SubmitInsert
    \/ F_Done \/ F_DoneReply \/ F_DoneTimeout \/ F_DoneCoord

SpecDone == Init /\ [][NextDone]_vars

\* One worker behind the coordinator facade: new_constellation with
\* Mode::MultiThreaded and number_of_threads = 1 (debug off).  The application
\* submits, sends and calls done; no lifecycle call outlasts done's timeout.
NextOneMulti ==
    \/ \E w \in Workers : Executor(w) \/ A_Return(w)
    \/ C_Events \/ C_EvInsert \/ C_Acts \/ C_Local \/ C_Shutdown
    \/ F_Submit \/ F_SubmitInsert \/ F_Send \/ F_SendInsert
    \/ F_Done \/ F_DoneReply \/ F_DoneCoord

SpecOneMulti == InitOne /\ [][NextOneMulti]_vars

\* The single-worker facade: new_constellation with Mode::SingleThreaded.
NextSingle ==
    \/ \E w \in Workers : Executor(w) \/ A_Return(w) \/ SA_Submit(w) \/ SA_Send(w)
    \/ S_Submit \/ S_Send \/ S_Done \/ S_DoneReply \/ F_DoneTimeout

SpecSingle == InitSingle /\ [][NextSingle]_vars

\* Relayed events: the application submits, running activities send.  Every
\* thread keeps taking steps, as in SpecParked.
NextRelay ==
    \/ \E w \in Workers : Executor(w) \/ A_Return(w) \/ A_Send(w)
    \/ C_Events \/ C_EvInsert \/ C_Acts \/ C_Local \/ C_Shutdown
    \/ F_Submit \/ F_SubmitScan \/ F_SubmitInsert

SpecRelay ==
    /\ Init /\ [][NextRelay]_vars
    /\ WF_vars(C_Events \/ C_EvInsert \/ C_Acts \/ C_Local \/ C_Shutdown)
    /\ \A w \in Workers : WF_vars(Executor(w)) /\ WF_vars(A_Return(w))
    /\ WF_vars(F_SubmitScan \/ F_SubmitInsert)

\* Load balance: only the application submits, nobody sends, and the
\* application calls done.
NextBalance ==
    \/ \E w \in Workers : Executor(w) \/ A_Return(w)
    \/ C_Events \/ C_Shutdown
    \/ F_Submit \/ F_SubmitScan \/ F_SubmitInsert
    \/ F_Done \/ F_DoneReply \/ F_DoneCoord

SpecBalance == Init /\ [][NextBalance]_vars

\* Shutdown under load: the application submits the first activity and calls
\* done once; running activities submit and send one event, and the
\* coordinator loop distributes both while done is under way.
NextShutdown ==
    \/ \E w \in Workers : Executor(w) \/ A_Return(w) \/ A_Submit(w)
                            \/ (A_Send(w) /\ sent = <<>>)
    \/ Coordinator
    \/ (F_Submit /\ activity_counter = 0) \/ F_SubmitScan \/ F_SubmitInsert
    \/ (F_Done /\ ndone = 0) \/ F_DoneReply \/ F_DoneCoord

SpecShutdown == Init /\ [][NextShutdown]_vars

\* Worker handles: the application submits on either facade, and running
\* activities send through the handle they were given.
NextHandle ==
    \/ \E w \in Workers : Executor(w) \/ A_Return(w) \/ A_Send(w) \/ SA_Send(w)
    \/ C_Events \/ C_EvInsert \/ C_Acts \/ C_Local \/ C_Shutdown
    \/ (F_Submit /\ multi_threaded) \/ F_SubmitScan \/ F_SubmitInsert
    \/ (S_Submit /\ ~multi_threaded)

SpecHandle == (Init \/ InitSingle) /\ [][NextHandle]_vars

\* Fresh work: the application submits on either facade and nobody sends, so
\* a record that suspends waits forever.  The executor loops never block and
\* a lifecycle call returns; a submit that has started completes.
NextFresh ==
    \/ \E w \in Workers : Executor(w) \/ A_Return(w)
    \/ (F_Submit /\ multi_threaded) \/ F_SubmitScan \/ F_SubmitInsert
    \/ (S_Submit /\ ~multi_threaded)

SpecFresh ==
    /\ (Init \/ InitSingle) /\ [][NextFresh]_vars
    /\ \A w \in Workers : WF_vars(Executor(w)) /\ WF_vars(A_Return(w))
    /\ WF_vars(F_SubmitScan \/ F_SubmitInsert)

\* ------------------------------------------------------------ locks
\* Every collection sits behind its own Mutex, and a MutexGuard is released
\* where its scope ends: which locks a thread holds follows from where the
\* thread is in the code.  The actions above are one critical section each
\* (or a run of them); the sections of the code in which a guard is still
\* alive when the next lock is taken are spelt out here, one lock per step.
\* the threads: executor w is thread w, then the coordinator loop thread and
\* the application thread
CoordinatorThread == NW
ApplicationThread == NW + 1
Threads == Workers \cup {CoordinatorThread, ApplicationThread}

\* the three locks of worker w (ExecutorQueues)
Lock(w, kind) == <<w, kind>>
WorkerLocks(w) == {Lock(w, "runnable"), Lock(w, "suspended"), Lock(w, "events")}

\* `a.lock().unwrap().is_empty() && b.lock().unwrap().is_empty() &&
\* c.lock().unwrap().is_empty()` as the condition of an if (queues_empty,
\* work_left): the guards of b and c are released when their operand is
\* evaluated; whether the guard of a is released after the first operand or at
\* the end of the condition depends on the compiler (temporaries of the first
\* operand of a lazy boolean chain), so both are possible.  Positions:
\* the map to lock next, and whether the guard of the runnable map is alive.
\* The result is the set of positions or outcomes that may follow.
is_empty_chain(p, w) ==
    CASE p = "runnable" ->
            IF is_empty(activities[w]) THEN {"suspended", "suspended_held"} ELSE {"false"}
      [] p = "suspended" ->
            IF is_empty(activities_suspended[w]) THEN {"events"} ELSE {"false"}
      [] p = "suspended_held" ->
            IF is_empty(activities_suspended[w]) THEN {"events_held"} ELSE {"false"}
      [] p \in {"events", "events_held"} ->
            IF is_empty(event_queue[w]) THEN {"true"} ELSE {"false"}

\* the lock that the chain takes at position p, and the one whose guard is alive
chain_takes(p, w) ==
    CASE p = "runnable" -> {Lock(w, "runnable")}
      [] p \in {"suspended", "suspended_held"} -> {Lock(w, "suspended")}
      [] p \in {"events", "events_held"} -> {Lock(w, "events")}
chain_held(p, w) ==
    IF p \in {"suspended_held", "events_held"} THEN {Lock(w, "runnable")} ELSE {}

\* the executor's positions inside queues_empty
QueuesEmptyPc ==
    [runnable |-> "qe_runnable", suspended |-> "qe_suspended",
     suspended_held |-> "qe_suspended_held", events |-> "qe_events",
     events_held |-> "qe_events_held"]
\* the application thread's positions inside work_left
WorkLeftPc ==
    [runnable |-> "wl_runnable", suspended |-> "wl_suspended",
     suspended_held |-> "wl_suspended_held", events |-> "wl_events",
     events_held |-> "wl_events_held"]
InChain(table, pc) == \E p \in DOMAIN table : table[p] = pc
Position(table, pc) == CHOOSE p \in DOMAIN table : table[p] = pc

\* `let length = activities.lock().unwrap().len()
\*      + activities_suspended.lock().unwrap().len();`
\* (get_thread_with_least_work): both guards live to the end of the let
\* statement, so the second lock is taken while the first is held.  The same
\* holds for the tuple of the two len() calls in done's warning.
least_work_locks_swapped == <<"suspended", "runnable">>
least_work_locks == <<"runnable", "suspended">>

\* an executor whose check_for_work returns with its guard alive, so that
\* run_activity calls initialize under the lock of the runnable map
ExecHeld_guard(w) ==
    IF exec[w].pc = "initialize" THEN {Lock(w, "runnable")} ELSE {}

\* The locks a thread holds at its position.  The executor: check_for_work
\* drops its guard before it returns; every other lock() of run,
\* check_suspended_work, run_activity and process is a temporary of a
\* statement or of an if condition that contains no lifecycle call; only
\* inside queues_empty a guard may be alive when the next lock is taken.

ExecHeld(w) ==
    IF InChain(QueuesEmptyPc, exec[w].pc)
    THEN chain_held(Position(QueuesEmptyPc, exec[w].pc), w)
    ELSE {}

CoordHeld ==
    IF coord.pc = "act_locked" THEN {Lock(coord.i, least_work_locks[1])} ELSE {}

FacadeHeld ==
    IF facade.pc = "submit_locked" THEN {Lock(facade.i, least_work_locks[1])}
    ELSE IF facade.pc = "warn_suspended" THEN {Lock(facade.x, least_work_locks[1])}
    ELSE IF InChain(WorkLeftPc, facade.pc)
    THEN chain_held(Position(WorkLeftPc, facade.pc), facade.x)
    ELSE {}

Held(t) ==
    IF t = CoordinatorThread THEN CoordHeld
    ELSE IF t = ApplicationThread THEN FacadeHeld
    ELSE ExecHeld(t)

\* the lock a thread takes next inside one of the sections spelt out here
ExecTakes(w) ==
    IF InChain(QueuesEmptyPc, exec[w].pc)
    THEN chain_takes(Position(QueuesEmptyPc, exec[w].pc), w)
    ELSE {}

CoordTakes ==
    IF coord.pc = "act_scan" /\ coord.i < thread_count
    THEN {Lock(coord.i, least_work_locks[1])}
    ELSE IF coord.pc = "act_locked" THEN {Lock(coord.i, least_work_locks[2])}
    ELSE {}

FacadeTakes ==
    IF facade.pc = "submit" /\ facade.i < thread_count
    THEN {Lock(facade.i, least_work_locks[1])}
    ELSE IF facade.pc = "submit_locked" THEN {Lock(facade.i, least_work_locks[2])}
    ELSE IF facade.pc = "warn_runnable" THEN {Lock(facade.x, least_work_locks[1])}
    ELSE IF facade.pc = "warn_suspended" THEN {Lock(facade.x, least_work_locks[2])}
    ELSE IF InChain(WorkLeftPc, facade.pc)
    THEN chain_takes(Position(WorkLeftPc, facade.pc), facade.x)
    ELSE {}

Takes(t) ==
    IF t = CoordinatorThread THEN CoordTakes
    ELSE IF t = ApplicationThread THEN FacadeTakes
    ELSE ExecTakes(t)

\* Mutex::lock returns: no other thread holds one of the locks
Free(t, locks) == \A u \in Threads \ {t} : Held(u) \cap locks = {}

\* run, the shutdown check, up to the call of queues_empty
EL_Signal(w) ==
    /\ Alive
    /\ \/ exec[w].pc = "signal"
       \/ exec[w].pc = "idle" /\ exec_signal[w] # <<>>
    /\ IF exec_signal[w] = <<>>
       THEN /\ exec' = [exec EXCEPT ![w] = At(w, ExecIdle("loop"))]
            /\ UNCHANGED exec_signal
       ELSE /\ exec_signal' = [exec_signal EXCEPT ![w] = Tail(@)]
            /\ exec' = [exec EXCEPT ![w] =
                  ExecIdle(IF Head(exec_signal[w]) THEN "qe_runnable" ELSE "loop")]
    /\ UNCHANGED <<activity_counter, queues, exec_reply, coord, coord_signal, coord_reply,
                   facade, done_result, done_waiting, ndone, sent, issued, log>>

\* queues_empty, one operand of its condition, and run's reply once the
\* condition is evaluated
EL_QueuesEmpty(w) ==
    /\ Alive /\ InChain(QueuesEmptyPc, exec[w].pc)
    /\ Free(w, ExecTakes(w))
    /\ \E next \in is_empty_chain(Position(QueuesEmptyPc, exec[w].pc), w) :
          IF next = "true"
          THEN /\ exec_reply' = [exec_reply EXCEPT ![w] = Append(@, TRUE)]
               /\ exec' = [exec EXCEPT ![w] = ExecIdle("exited")]
          ELSE IF next = "false"
          THEN /\ exec_reply' = [exec_reply EXCEPT ![w] = Append(@, FALSE)]
               /\ exec' = [exec EXCEPT ![w] = ExecIdle("loop")]
          ELSE /\ exec' = [exec EXCEPT ![w] = ExecIdle(QueuesEmptyPc[next])]
               /\ UNCHANGED exec_reply
    /\ UNCHANGED <<activity_counter, queues, exec_signal, coord, coord_signal, coord_reply,
                   facade, done_result, done_waiting, ndone, sent, issued, log>>

\* get_thread_with_least_work, worker l.i: the first lock of the let statement
least_lock(l, pc) == [l EXCEPT !.pc = pc]
\* the second lock, the sum of the two lengths and the comparison
least_read(l, pc) == least_work_step([l EXCEPT !.pc = pc])

\* MultiThreadHelper::submit is called
FL_Submit ==
    /\ facade.pc = "idle"
    /\ activity_counter < MaxActs
    /\ \E expects_events \in BOOLEAN :
        facade' = [FacadeAt("submit") EXCEPT !.expects = expects_events]
    /\ done_result' = "none"
    /\ done_waiting' = {}
    /\ UNCHANGED <<activity_counter, queues, exec, channels, coord,
                   ndone, sent, issued, log>>

FL_LeastLock ==
    /\ facade.pc = "submit" /\ facade.i < thread_count
    /\ Free(ApplicationThread, FacadeTakes)
    /\ facade' = least_lock(facade, "submit_locked")
    /\ UNCHANGED <<activity_counter, queues, exec, channels, coord,
                   done_result, done_waiting, ndone, sent, issued, log>>

FL_LeastRead ==
    /\ facade.pc = "submit_locked"
    /\ Free(ApplicationThread, FacadeTakes)
    /\ facade' = least_read(facade, "submit")
    /\ UNCHANGED <<activity_counter, queues, exec, channels, coord,
                   done_result, done_waiting, ndone, sent, issued, log>>

\* handle_thread_activity steals one activity
CL_Acts ==
    /\ Alive
    /\ \/ coord.pc = "acts"
       \/ coord.pc = "idle" /\ activities_from_threads # <<>>
    /\ IF activities_from_threads = <<>>
       THEN /\ coord' = CoordNext("local")
            /\ UNCHANGED activities_from_threads
       ELSE /\ activities_from_threads' = Tail(activities_from_threads)
            /\ coord' = [CoordAt("act_scan") EXCEPT
                            !.act = Some(Head(activities_from_threads))]
    /\ UNCHANGED <<activity_counter, activities, activities_suspended, event_queue,
                   events_from_threads, local_events, exec, channels,
                   facade, done_result, done_waiting, ndone, sent, issued, log>>

CL_LeastLock ==
    /\ Alive /\ coord.pc = "act_scan" /\ coord.i < thread_count
    /\ Free(CoordinatorThread, CoordTakes)
    /\ coord' = least_lock(coord, "act_locked")
    /\ UNCHANGED <<activity_counter, queues, exec, channels,
                   facade, done_result, done_waiting, ndone, sent, issued, log>>

CL_LeastRead ==
    /\ Alive /\ coord.pc = "act_locked"
    /\ Free(CoordinatorThread, CoordTakes)
    /\ coord' = least_read(coord, "act_scan")
    /\ UNCHANGED <<activity_counter, queues, exec, channels,
                   facade, done_result, done_waiting, ndone, sent, issued, log>>

\* MultiThreadHelper::done locks the handle of worker x and calls
\* InnerConstellation::done, which starts with work_left
inner_done_call(x) == [FacadeAt("wl_runnable") EXCEPT !.x = x]

FL_Done ==
    /\ facade.pc = "idle"
    /\ ndone < MaxDone
    /\ ndone' = ndone + 1
    /\ done_waiting' = SuspendedNoEvent
    /\ done_result' = "none"
    /\ facade' = inner_done_call(0)
    /\ UNCHANGED <<activity_counter, queues, exec, channels, coord,
                   sent, issued, log>>

\* work_left, one operand of its condition; with work left done goes on to
\* its warning, without it done signals the executor and waits for the reply
FL_WorkLeft ==
    /\ InChain(WorkLeftPc, facade.pc)
    /\ Free(ApplicationThread, FacadeTakes)
    /\ \E next \in is_empty_chain(Position(WorkLeftPc, facade.pc), facade.x) :
          IF next = "false"
          THEN /\ facade' = [FacadeAt("warn_runnable") EXCEPT !.x = facade.x]
               /\ UNCHANGED <<exec_signal, done_result>>
          ELSE IF next = "true"
          THEN IF exec[facade.x].pc = "exited"
               THEN /\ facade' = FacadeAt("panic")
                    /\ done_result' = "panic"
                    /\ UNCHANGED exec_signal
               ELSE /\ exec_signal' = [exec_signal EXCEPT ![facade.x] = Append(@, TRUE)]
                    /\ facade' = [FacadeAt("done_wait") EXCEPT !.x = facade.x]
                    /\ UNCHANGED done_result
          ELSE /\ facade' = [FacadeAt(WorkLeftPc[next]) EXCEPT !.x = facade.x]
               /\ UNCHANGED <<exec_signal, done_result>>
    /\ UNCHANGED <<activity_counter, queues, exec, exec_reply, coord,
                   coord_signal, coord_reply, done_waiting, ndone, sent, issued, log>>

\* done's warning: `let (w, w_s) = (work_queue.lock().unwrap().len(),
\* work_suspended.lock().unwrap().len());`, then return Ok(false)
FL_Warn ==
    /\ facade.pc \in {"warn_runnable", "warn_suspended"}
    /\ Free(ApplicationThread, FacadeTakes)
    /\ IF facade.pc = "warn_runnable"
       THEN /\ facade' = [facade EXCEPT !.pc = "warn_suspended"]
            /\ UNCHANGED done_result
       ELSE /\ facade' = FacadeAt("idle")
            /\ done_result' = "false"
    /\ UNCHANGED <<activity_counter, queues, exec, channels, coord,
                   done_waiting, ndone, sent, issued, log>>

\* InnerConstellation::done got the executor's reply
FL_DoneReply ==
    /\ facade.pc = "done_wait"
    /\ exec_reply[facade.x] # <<>>
    /\ exec_reply' = [exec_reply EXCEPT ![facade.x] = Tail(@)]
    /\ IF ~Head(exec_reply[facade.x])
       THEN /\ facade' = [FacadeAt("warn_runnable") EXCEPT !.x = facade.x]
            /\ UNCHANGED coord_signal
       ELSE IF facade.x + 1 < thread_count
       THEN /\ facade' = inner_done_call(facade.x + 1)
            /\ UNCHANGED coord_signal
       ELSE /\ coord_signal' = Append(coord_signal, TRUE)
            /\ facade' = FacadeAt("done_coord")
    /\ UNCHANGED <<activity_counter, queues, exec, exec_signal, coord, coord_reply,
                   done_result, done_waiting, ndone, sent, issued, log>>

\* Shutdown under load as in SpecShutdown, with the sections that take a
\* second lock spelt out; each of the other actions takes the locks of its
\* critical sections one at a time and waits while another thread holds one
NextLocks ==
    \/ \E w \in Workers :
          \/ E_Loop(w) /\ Free(w, {Lock(w, "suspended"), Lock(w, "runnable")})
          \/ E_Work(w) /\ Free(w, {Lock(w, "runnable")})
          \/ E_Scan(w) /\ Free(w, {Lock(w, "events"), Lock(w, "suspended")})
          \/ EL_Signal(w)
          \/ EL_QueuesEmpty(w)
          \/ A_Return(w) /\ Free(w, {Lock(w, "suspended"), Lock(w, "events")})
          \/ A_Submit(w)
          \/ A_Send(w) /\ sent = <<>> /\ Free(w, WorkerLocks(w))
    \/ C_Events /\ Free(CoordinatorThread, UNION {WorkerLocks(w) : w \in Workers})
    \/ C_EvInsert /\ Free(CoordinatorThread, UNION {WorkerLocks(w) : w \in Workers})
    \/ CL_Acts \/ CL_LeastLock \/ CL_LeastRead
    \/ C_ActInsert /\ Free(CoordinatorThread, {Lock(coord.index, "runnable")})
    \/ C_ActEvent /\ Free(CoordinatorThread, UNION {WorkerLocks(w) : w \in Workers})
    \/ C_Local /\ Free(CoordinatorThread, UNION {WorkerLocks(w) : w \in Workers})
    \/ C_Shutdown
    \/ (FL_Submit /\ activity_counter = 0) \/ FL_LeastLock \/ FL_LeastRead
    \/ F_SubmitInsert /\ Free(ApplicationThread, {Lock(facade.index, "runnable")})
    \/ (FL_Done /\ ndone = 0) \/ FL_WorkLeft \/ FL_Warn \/ FL_DoneReply \/ F_DoneCoord

SpecLocks == Init /\ [][NextLocks]_vars

\* ------------------------------------------------------------ observations
\* where the record of identifier a is
InIngest(a) == {i \in 1 .. Len(activities_from_threads) : activities_from_threads[i].id = a}
InRunnable(a) == {w \in Workers : contains_key(activities[w], a)}
InSuspended(a) == {w \in Workers : contains_key(activities_suspended[w], a)}
InFlight(a) == {w \in Workers : exec[w].activity # None /\ exec[w].activity[1].id = a}
\* the coordinator loop has stolen the record and not inserted it yet
Stolen(a) == IF coord.act # None /\ coord.act[1].id = a THEN {"coordinator"} ELSE {}

Places(a) == Cardinality(InIngest(a)) + Cardinality(InRunnable(a))
             + Cardinality(InSuspended(a)) + Cardinality(InFlight(a))

\* the lifecycle calls of a so far
Calls(a, op) == {i \in 1 .. Len(log[a]) : log[a][i].op = op}
CleanedUp(a) == log[a] # <<>> /\ log[a][Len(log[a])] = [op |-> "cleanup", event |-> None, ret |-> "returned"]
Live(a) == a \in Submitted /\ ~CleanedUp(a)
Expects(a) == \E i \in 1 .. Len(issued) : issued[i].id = a /\ issued[i].expects_events
InitFinish(a) == log[a] # <<>> /\ log[a][1].op = "initialize" /\ log[a][1].ret = "FINISH"

\* the process calls of a that were given the event numbered eid
ProcessedAt(a, eid) == {i \in Calls(a, "process") :
                           log[a][i].event # None /\ log[a][i].event[1].eid = eid}

InQueue(data, key, e) == key \in DOMAIN data /\ \E i \in 1 .. Len(data[key]) : data[key][i] = e

\* how often event e is in the EventQueue `data`
CountIn(data, e) ==
    Cardinality({ki \in UNION {{<<k, i>> : i \in 1 .. Len(data[k])} : k \in DOMAIN data} :
                    data[ki[1]][ki[2]] = e})

\* how often event e is in one of the queues: the event ingest queue, the
\* local waiting queue, the workers' event queues
InQueues(e) ==
    Cardinality({i \in 1 .. Len(events_from_threads) : events_from_threads[i] = e})
    + CountIn(local_events, e)
    + Cardinality({w \in Workers : CountIn(event_queue[w], e) = 1})
    + 2 * Cardinality({w \in Workers : CountIn(event_queue[w], e) > 1})

\* the application's send of e has not returned yet
Sending(e) == IF facade.pc = "send" /\ facade.ev = Some(e) THEN 1 ELSE 0
\* the coordinator loop has taken e out of a queue and not placed it yet
Distributing(e) == IF coord.pc = "ev_insert" /\ coord.ev = Some(e) THEN 1 ELSE 0

\* the process calls that were given event e
Deliveries(e) ==
    UNION {{<<a, i>> : i \in {j \in Calls(a, "process") : log[a][j].event = Some(e)}} : a \in Ids}

\* the activities that submit has assigned to worker w
Assigned(w) == {i \in 1 .. Len(issued) : issued[i].thread_id = w}

\* no lifecycle call has returned SUSPEND so far
NoSuspend ==
    \A a \in Ids : \A i \in 1 .. Len(log[a]) : log[a][i].ret # "SUSPEND"

\* the i-th event was sent by a running activity to d, and d has been submitted
Relayed(i, d) ==
    IF Len(sent) >= i
    THEN sent[i].src # None /\ sent[i].dst = d /\ d \in Submitted
    ELSE FALSE

\* the i-th event is in a worker's event queue under key d, or was taken from
\* there and given to a process call
Queued(i, d) ==
    IF Len(sent) >= i
    THEN \/ \E w \in Workers : InQueue(event_queue[w], d, sent[i])
         \/ Deliveries(sent[i]) # {}
    ELSE FALSE

\* ------------------------------------------------------------ hello world
\* examples/hello_world.rs on the single-worker facade: run submits the
\* SingleEventCollector first and the HelloWorldActivity second
Collector == 0
Sender == 1

\* what the example's activities return: SingleEventCollector suspends in
\* initialize and finishes in process when it is given an event;
\* HelloWorldActivity always finishes
hello_state(a, call) ==
    IF call.op = "cleanup" THEN "returned"
    ELSE IF a = Collector
    THEN (IF call.op = "process" /\ call.event # None THEN "FINISH" ELSE "SUSPEND")
    ELSE "FINISH"

\* every call that has returned has returned what the example's activity
\* returns, and HelloWorldActivity::initialize has sent its event before it
\* returns
HelloWorld ==
    /\ \A a \in {Collector, Sender} : \A i \in 1 .. Len(log[a]) :
          log[a][i].ret \in {"running", hello_state(a, log[a][i])}
    /\ (log[Sender] # <<>> /\ log[Sender][1].ret # "running") => sent # <<>>

\* SingleEventCollector::get_event has returned: process has stored an event
Observed ==
    \E i \in Calls(Collector, "process") :
        log[Collector][i].event # None /\ log[Collector][i].ret # "running"

\* run: the two submits (the collector expects events, the sender does not),
\* on the single-worker facade
H_Submit ==
    /\ ~multi_threaded
    /\ activity_counter \in {Collector, Sender}
    /\ S_Submit
    /\ issued'[Len(issued')].expects_events = (activity_counter = Collector)

\* the same submits on the coordinator facade
H_SubmitMulti ==
    /\ multi_threaded
    /\ activity_counter \in {Collector, Sender}
    /\ F_Submit
    /\ facade'.expects = (activity_counter = Collector)

\* HelloWorldActivity::initialize sends its one event to the collector
H_Send(w) ==
    /\ exec[w].pc = "initialize" /\ exec[w].activity[1].id = Sender
    /\ sent = <<>>
    /\ SA_Send(w) \/ A_Send(w)
    /\ sent'[1].dst = Collector

\* a lifecycle call of the example's activities returns
H_Return(w) == A_Return(w) /\ HelloWorld'

\* run: get_event has returned the event, done is called once
H_Done ==
    /\ Observed /\ ndone = 0
    /\ IF multi_threaded THEN F_Done ELSE S_Done

\* done gets the executor's reply
H_DoneReply == IF multi_threaded THEN F_DoneReply ELSE S_DoneReply

\* the example behind the single-worker facade, and behind the coordinator
\* facade with one worker or with all of them
InitHello == InitSingle \/ InitOne \/ Init

NextHello ==
    \/ \E w \in Workers : Executor(w) \/ H_Return(w) \/ H_Send(w)
    \/ H_Submit \/ H_SubmitMulti \/ F_SubmitScan \/ F_SubmitInsert
    \/ H_Done \/ H_DoneReply
    \/ C_Events \/ C_EvInsert \/ C_Acts \/ C_Local \/ C_Shutdown \/ F_DoneCoord

\* every thread of the example keeps running
SpecHello ==
    /\ InitHello /\ [][NextHello]_vars
    /\ \A w \in Workers : WF_vars(Executor(w)) /\ WF_vars(H_Return(w)) /\ WF_vars(H_Send(w))
    /\ WF_vars(H_Submit \/ H_SubmitMulti \/ F_SubmitScan \/ F_SubmitInsert)
    /\ WF_vars(H_Done \/ H_DoneReply \/ F_DoneCoord)
    /\ WF_vars(C_Events \/ C_EvInsert \/ C_Acts \/ C_Local \/ C_Shutdown)

\* the outcome run prints: the collector was given one event, the sender's, in
\* its only process call; both activities were initialized and cleaned up
\* once; done returned Ok(true)
HelloDone ==
    /\ Cardinality(Calls(Collector, "process")) = 1
    /\ \A i \in Calls(Collector, "process") :
          /\ log[Collector][i].event # None
          /\ log[Collector][i].event[1].src = Some(Sender)
          /\ log[Collector][i].ret = "FINISH"
    /\ \A a \in {Collector, Sender} :
          /\ Cardinality(Calls(a, "cleanup")) = 1
          /\ CleanedUp(a)
          /\ Cardinality(Calls(a, "initialize")) = 1
    /\ done_result = "true"

\* ------------------------------------------------------------ vector add
\* examples/vector_add: constellation_vector_add submits the
\* SingleEventCollector first and the base ComputeActivity second
Root == 1

\* run: vec1 and vec2 hold 0 .. array_length - 1
input == [i \in 1 .. VecLen |-> i - 1]

\* ComputeActivity::compute_result: zip and add
compute_result(vec1, vec2) ==
    [i \in 1 .. (IF Len(vec1) < Len(vec2) THEN Len(vec1) ELSE Len(vec2)) |->
        vec1[i] + vec2[i]]

\* the ComputeActivity struct
ComputeActivity(vec1, vec2, target) ==
    [kind |-> "compute", vec1 |-> vec1, vec2 |-> vec2, threshold |-> THRESHOLD,
     target |-> target, order |-> None, waiting_for_event |-> FALSE]

\* the wrapper of an activity of the example: the collector or a ComputeActivity
VecWrapper(thread_id, id, expects_events, activity) ==
    [id |-> id, expects_events |-> expects_events, thread_id |-> thread_id,
     activity |-> activity]

\* the activities that constellation_vector_add creates, by their identifier
vec_submitted(thread_id, id) ==
    IF id = Collector
    THEN VecWrapper(thread_id, id, TRUE, [kind |-> "collector"])
    ELSE VecWrapper(thread_id, id, FALSE, ComputeActivity(input, input, Collector))

\* Event::new with the Payload { vec }
VecEvent(eid, src, dst, vec) == [eid |-> eid, src |-> src, dst |-> dst, payload |-> vec]

\* the activity has sent its result to its target
HasSent(id) == \E i \in 1 .. Len(sent) : sent[i].src = Some(id)

\* the event that the running call of id was given
Given(id) == log[id][Len(log[id])].event

\* process_event that joins the results in the order of their arrival
stitch_arrival(order, src, v, vec1) == vec1 \o v

\* process_event, second event: the result of the first child goes first
stitch(order, src, v, vec1) ==
    IF order[1][1] = src THEN v \o vec1 ELSE vec1 \o v

\* constellation_vector_add, the application's submit has chosen the worker
\* (coordinator facade)
V_SubmitInsert ==
    /\ facade.pc = "submit" /\ facade.i = thread_count
    /\ LET g == generate_activity_id(activity_counter)
           activity_wrapper == vec_submitted(facade.index, g.ret)
       IN
       /\ activity_counter' = g.counter
       /\ issued' = Append(issued, activity_wrapper)
       /\ distribute_activity_insert(facade.index, activity_wrapper)
    /\ facade' = FacadeAt("idle")
    /\ UNCHANGED <<activities_suspended, event_queue, activities_from_threads,
                   events_from_threads, local_events, exec, channels, coord,
                   done_result, done_waiting, ndone, sent, log>>

\* constellation_vector_add, one submit on the single-worker facade
V_SubmitSingle ==
    /\ ~multi_threaded
    /\ facade.pc = "idle"
    /\ activity_counter \in {Collector, Root}
    /\ LET g == generate_activity_id(activity_counter)
           activity_wrapper == vec_submitted(0, g.ret)
       IN
       /\ activity_counter' = g.counter
       /\ issued' = Append(issued, activity_wrapper)
       /\ activities' = [activities EXCEPT ![0] = map_insert(@, g.ret, activity_wrapper)]
    /\ UNCHANGED <<activities_suspended, event_queue, activities_from_threads,
                   events_from_threads, local_events, exec, channels, coord,
                   facade, done_result, done_waiting, ndone, sent, log>>

\* the activity in worker w's hands is a ComputeActivity inside call `op`
Computing(w, op) ==
    /\ Alive /\ exec[w].pc = op
    /\ exec[w].activity[1].activity.kind = "compute"

\* an activity of the example sends e through its worker's handle
vec_send(w, e) ==
    /\ sent' = Append(sent, e)
    /\ IF multi_threaded
       THEN inner_send(w, e)
       ELSE /\ event_queue' = [event_queue EXCEPT ![0] = insert(@, e.dst, e)]
            /\ UNCHANGED events_from_threads

\* ComputeActivity::initialize, the vectors are at least threshold long:
\* split_work_over_children submits two children under one lock of the
\* handle, empties vec1 and notes the order of the children
V_Split(w) ==
    /\ Computing(w, "initialize") /\ ~Locked(w)
    /\ LET wrapper == exec[w].activity[1]
           a == wrapper.activity
           half == Len(a.vec1) \div 2
           g1 == generate_activity_id(activity_counter)
           g2 == generate_activity_id(g1.counter)
           thread == IF multi_threaded THEN w ELSE 0
           child1 == VecWrapper(thread, g1.ret, FALSE,
                        ComputeActivity(SubSeq(a.vec1, 1, half),
                                        SubSeq(a.vec1, 1, half), wrapper.id))
           child2 == VecWrapper(thread, g2.ret, FALSE,
                        ComputeActivity(SubSeq(a.vec1, half + 1, Len(a.vec1)),
                                        SubSeq(a.vec1, half + 1, Len(a.vec2)), wrapper.id))
       IN
       /\ ~a.waiting_for_event
       /\ ~(Len(a.vec1) < a.threshold)
       /\ activity_counter' = g2.counter
       /\ issued' = issued \o <<child1, child2>>
       /\ IF multi_threaded
          THEN /\ activities_from_threads' = activities_from_threads \o <<child1, child2>>
               /\ UNCHANGED activities
          ELSE /\ activities' = [activities EXCEPT ![0] =
                      map_insert(map_insert(@, child1.id, child1), child2.id, child2)]
               /\ UNCHANGED activities_from_threads
       /\ exec' = [exec EXCEPT ![w].activity = Some([wrapper EXCEPT
                      !.activity.vec1 = <<>>,
                      !.activity.order = Some(<<g1.ret, g2.ret>>),
                      !.activity.waiting_for_event = TRUE])]
    /\ UNCHANGED <<activities_suspended, event_queue, events_from_threads,
                   local_events, channels, coord, facade, done_result,
                   done_waiting, ndone, sent, log>>

\* ComputeActivity::initialize, the vectors are shorter than threshold:
\* compute_result and send_result_to_parent
V_SendLeaf(w) ==
    /\ Computing(w, "initialize") /\ ~Locked(w)
    /\ LET wrapper == exec[w].activity[1]
           a == wrapper.activity
       IN
       /\ ~a.waiting_for_event
       /\ Len(a.vec1) < a.threshold
       /\ ~HasSent(wrapper.id)
       /\ vec_send(w, VecEvent(Len(sent) + 1, Some(wrapper.id), a.target,
                               compute_result(a.vec1, a.vec2)))
    /\ UNCHANGED <<activity_counter, activities, activities_suspended,
                   activities_from_threads, local_events, exec, channels, coord,
                   facade, done_result, done_waiting, ndone, issued, log>>

\* ComputeActivity::process_event, the second result: stitch and
\* send_result_to_parent
V_SendResult(w) ==
    /\ Computing(w, "process") /\ ~Locked(w)
    /\ LET wrapper == exec[w].activity[1]
           a == wrapper.activity
           event == Given(wrapper.id)
       IN
       /\ event # None
       /\ Len(a.vec1) # 0
       /\ ~HasSent(wrapper.id)
       /\ LET vec == stitch(a.order, event[1].src[1], event[1].payload, a.vec1) IN
          /\ exec' = [exec EXCEPT ![w].activity = Some([wrapper EXCEPT !.activity.vec1 = vec])]
          /\ vec_send(w, VecEvent(Len(sent) + 1, Some(wrapper.id), a.target, vec))
    /\ UNCHANGED <<activity_counter, activities, activities_suspended,
                   activities_from_threads, local_events, channels, coord,
                   facade, done_result, done_waiting, ndone, issued, log>>

\* a lifecycle call of an activity of the example returns.  The collector
\* suspends in initialize and finishes when process is given an event.  A
\* ComputeActivity returns FINISH from initialize once it has split or sent;
\* its process suspends while it waits for results, stores the first result
\* and suspends, and finishes once it has sent its own result
V_Return(w) ==
    /\ Alive /\ InStep(w)
    /\ LET wrapper == exec[w].activity[1]
           a == wrapper.activity
           event == Given(wrapper.id)
       IN
       IF exec[w].pc = "cleanup" THEN cleanup_returned(w, wrapper)
       ELSE IF a.kind = "collector"
       THEN IF exec[w].pc = "initialize"
            THEN initialize_returned(w, wrapper, "SUSPEND")
            ELSE process_returned(w, wrapper, IF event # None THEN "FINISH" ELSE "SUSPEND")
       ELSE IF exec[w].pc = "initialize"
       THEN /\ a.waiting_for_event \/ HasSent(wrapper.id)
            /\ initialize_returned(w, wrapper, "FINISH")
       ELSE IF event = None
       THEN process_returned(w, wrapper, IF a.waiting_for_event THEN "SUSPEND" ELSE "FINISH")
       ELSE IF Len(a.vec1) = 0
       THEN process_returned(w, [wrapper EXCEPT !.activity.vec1 = event[1].payload], "SUSPEND")
       ELSE /\ HasSent(wrapper.id)
            /\ process_returned(w, wrapper, "FINISH")
    /\ UNCHANGED <<activity_counter,
                   activities_from_threads, events_from_threads, local_events,
                   channels, coord, facade, done_result, done_waiting, ndone, sent, issued>>

\* the event that get_event returns to constellation_vector_add
Result ==
    {log[Collector][i].event[1].payload : i \in
        {j \in Calls(Collector, "process") :
            log[Collector][j].event # None /\ log[Collector][j].ret # "running"}}

\* run: the collector has handed over the result, done is called once
V_Done ==
    /\ Result # {} /\ ndone = 0
    /\ IF multi_threaded THEN F_Done ELSE S_Done

\* the example behind the single-worker facade (one thread, debug on) and
\* behind the coordinator facade
InitVec == InitSingle \/ Init

NextVec ==
    \/ \E w \in Workers : Executor(w) \/ V_Split(w) \/ V_SendLeaf(w)
                            \/ V_SendResult(w) \/ V_Return(w)
    \/ H_SubmitMulti \/ F_SubmitScan \/ V_SubmitInsert \/ V_SubmitSingle
    \/ V_Done \/ H_DoneReply \/ F_DoneCoord
    \/ Coordinator

\* every thread of the example keeps running
SpecVec ==
    /\ InitVec /\ [][NextVec]_vars
    /\ \A w \in Workers :
          /\ WF_vars(Executor(w))
          /\ WF_vars(V_Split(w) \/ V_SendLeaf(w) \/ V_SendResult(w) \/ V_Return(w))
    /\ WF_vars(H_SubmitMulti \/ F_SubmitScan \/ V_SubmitInsert \/ V_SubmitSingle)
    /\ WF_vars(V_Done \/ H_DoneReply \/ F_DoneCoord)
    /\ WF_vars(Coordinator)

\* the outcome run prints: the collector was sent exactly one event and has
\* handed it over, its payload is the element-wise sum in index order, and
\* done returned Ok(true)
VecDone ==
    /\ Cardinality({i \in 1 .. Len(sent) : sent[i].dst = Collector}) = 1
    /\ Result = {[i \in 1 .. VecLen |-> 2 * (i - 1)]}
    /\ done_result = "true"

\* ------------------------------------------------------------ stall
\* The next statement of the lifecycle call that worker w's executor is in
\* locks the handle: a ComputeActivity that has neither split nor sent yet
\* (initialize), or that holds both results and has not sent yet (process)
WantsHandle(w) ==
    \/ /\ Computing(w, "initialize")
       /\ ~exec[w].activity[1].activity.waiting_for_event
       /\ ~HasSent(exec[w].activity[1].id)
    \/ /\ Computing(w, "process")
       /\ Given(exec[w].activity[1].id) # None
       /\ Len(exec[w].activity[1].activity.vec1) # 0
       /\ ~HasSent(exec[w].activity[1].id)

\* the activity's lock() on the handle does not return: done holds the mutex
Blocked(w) == Locked(w) /\ WantsHandle(w)

\* a ComputeActivity of the vector add example submitted on its own: its
\* result goes to an identifier that is never submitted
base_submitted(thread_id, id) ==
    VecWrapper(thread_id, id, FALSE, ComputeActivity(input, input, Unknown))

\* the application's submit of that activity on the coordinator facade, once
\* get_thread_with_least_work has chosen the worker
B_SubmitInsert ==
    /\ facade.pc = "submit" /\ facade.i = thread_count
    /\ LET g == generate_activity_id(activity_counter)
           activity_wrapper == base_submitted(facade.index, g.ret)
       IN
       /\ activity_counter' = g.counter
       /\ issued' = Append(issued, activity_wrapper)
       /\ distribute_activity_insert(facade.index, activity_wrapper)
    /\ facade' = FacadeAt("idle")
    /\ UNCHANGED <<activities_suspended, event_queue, activities_from_threads,
                   events_from_threads, local_events, exec, channels, coord,
                   done_result, done_waiting, ndone, sent, log>>

\* the same submit on the single-worker facade
B_SubmitSingle ==
    /\ ~multi_threaded
    /\ facade.pc = "idle"
    /\ activity_counter = 0
    /\ LET g == generate_activity_id(activity_counter)
           activity_wrapper == base_submitted(0, g.ret)
       IN
       /\ activity_counter' = g.counter
       /\ issued' = Append(issued, activity_wrapper)
       /\ activities' = [activities EXCEPT ![0] = map_insert(@, g.ret, activity_wrapper)]
    /\ UNCHANGED <<activities_suspended, event_queue, activities_from_threads,
                   events_from_threads, local_events, exec, channels, coord,
                   facade, done_result, done_waiting, ndone, sent, log>>

\* An application that submits one ComputeActivity of the vector add example
\* and calls done, at any time.  No lifecycle call computes for as long as
\* done's timeout: the timeout expires only on an executor that is blocked.
NextStall ==
    \/ \E w \in Workers : Executor(w) \/ V_Split(w) \/ V_SendLeaf(w)
                            \/ V_SendResult(w) \/ V_Return(w)
    \/ (F_Submit /\ multi_threaded /\ activity_counter = 0 /\ ~facade'.expects)
    \/ F_SubmitScan \/ B_SubmitInsert \/ B_SubmitSingle
    \/ (IF multi_threaded THEN F_Done ELSE S_Done)
    \/ H_DoneReply \/ F_DoneCoord
    \/ (F_DoneTimeout /\ Blocked(facade.x))
    \/ Coordinator

SpecStall == InitVec /\ [][NextStall]_vars

\* ------------------------------------------------------------ ingest
\* The vector add example while an event that the application has sent to an
\* identifier that is never submitted sits in the local waiting queue: the
\* coordinator loop then never rests, every one of its iterations runs from
\* handle_thread_events to the shutdown check and the sleep.  The base
\* activity splits while the coordinator loop sleeps between two iterations,
\* so both children are in the activity ingest queue when the next iteration
\* starts.
Stray ==
    /\ sent = <<>>
    /\ F_Send
    /\ sent'[1].dst = Unknown

\* the coordinator loop is between the shutdown check of one iteration and
\* handle_thread_events of the next
Sleeping == coord.pc = "events"

NextIngest ==
    \/ \E w \in Workers : Executor(w) \/ (V_Split(w) /\ Sleeping) \/ V_SendLeaf(w)
                            \/ V_SendResult(w) \/ V_Return(w)
    \/ Stray \/ F_SendInsert
    \/ (H_SubmitMulti /\ sent # <<>>) \/ F_SubmitScan \/ V_SubmitInsert
    \/ Coordinator

SpecIngest == Init /\ [][NextIngest]_vars

\* ------------------------------------------------------------ EventQueue on its own
\* An EventQueue (that of worker 0) under arbitrary calls of insert and remove
\* by its owner, nothing else running.

\* the events held by an EventQueue
Pending(data) == UNION {{data[k][i] : i \in 1 .. Len(data[k])} : k \in DOMAIN data}

\* insert(dst, event) of a new event; the events are numbered in the order of
\* their insertion
Q_Insert ==
    /\ Len(sent) < MaxQueued
    /\ \E dst \in Dsts :
          LET e == Event(Len(sent) + 1, None, dst) IN
          /\ event_queue' = [event_queue EXCEPT ![0] = insert(@, dst, e)]
          /\ sent' = Append(sent, e)
    /\ UNCHANGED <<activity_counter, activities, activities_suspended,
                   activities_from_threads, events_from_threads, local_events,
                   exec, channels, coord, facade, done_result, done_waiting,
                   ndone, issued, log>>

\* remove(key), for a key with or without events
Q_Remove ==
    /\ \E key \in Dsts :
          event_queue' = [event_queue EXCEPT ![0] = remove(@, key).data]
    /\ UNCHANGED <<activity_counter, activities, activities_suspended,
                   activities_from_threads, events_from_threads, local_events,
                   exec, channels, coord, facade, done_result, done_waiting,
                   ndone, sent, issued, log>>

NextQueue == Q_Insert \/ Q_Remove
SpecQueue == InitSingle /\ [][NextQueue]_vars

\* ------------------------------------------------------------ claims
\* C1: two events sent to the same destination by the same sender, the first
\* send returning before the second starts, are given to the destination's
\* process step in the order of their sends.
C1_Fifo ==
    \A i, j \in 1 .. Len(sent) :
        (/\ i < j
         /\ sent[i].dst = sent[j].dst
         /\ sent[i].src = sent[j].src
         /\ sent[j].dst \in Ids
         /\ ProcessedAt(sent[j].dst, j) # {})
        => \E p \in ProcessedAt(sent[i].dst, i) :
              \A q \in ProcessedAt(sent[j].dst, j) : p < q

\* C2: every live identifier is in exactly one place, the coordinator loop's
\* hands between its steal and its insertion counted as a place; an identifier
\* that is not live is nowhere.
C2_OnePlace ==
    \A a \in Ids :
        Places(a) + Cardinality(Stolen(a)) = IF Live(a) THEN 1 ELSE 0

\* C2 as stated: every live identifier is in the activity ingest queue, in one
\* runnable map, in one suspended map or in flight on one executor.
C2_FourPlaces == \A a \in Ids : Live(a) => Places(a) = 1

\* a record is in the coordinator loop's hands while another one is in flight
\* and a third place, a suspended map, is in use
C2_Witness ==
    \E a, b \in Ids : a # b /\ Stolen(a) # {} /\ (InFlight(b) # {} \/ InSuspended(b) # {})

\* C3: any two activities submitted in one run have different identifiers.
C3_Unique ==
    \A i, j \in 1 .. Len(issued) : i # j => issued[i].id # issued[j].id

\* an activity submitted its activity while the application's submit was under
\* way, and both submits have returned
C3_Witness ==
    /\ Len(issued) = MaxActs + 1
    /\ facade.pc = "idle"

\* C4: when done has returned Ok(true), every worker's runnable map, suspended
\* map and event queue and both ingest queues are empty.
C4_Drained ==
    done_result = "true" =>
        /\ \A w \in Workers : queues_empty(w)
        /\ activities_from_threads = <<>>
        /\ events_from_threads = <<>>

\* C5: while an activity is suspended to which no event was ever sent, a done
\* call neither panics nor returns drained (it returns not-drained, or Err
\* after its timeout).
C5_NotDrained ==
    done_waiting # {} => done_result \in {"none", "false", "error"}

\* C6: an event that the application sends to an identifier that submit has
\* returned is eventually given to that activity's process step, unless the
\* activity is cleaned up first.
C6_EventuallyProcessed ==
    \A i \in 1 .. MaxEvents : \A d \in Dsts \ {Unknown} :
        (/\ facade.pc = "send"
         /\ facade.ev[1].eid = i
         /\ facade.ev[1].dst = d
         /\ d \in Submitted)
        ~> (ProcessedAt(d, i) # {} \/ CleanedUp(d))

\* C7: while an event to a never submitted identifier has been sent, an event
\* parked in the local waiting queue whose destination is suspended on a
\* worker eventually leaves the local waiting queue for that worker (or the
\* destination leaves the suspended map).
C7_OthersDelivered ==
    \A i \in 1 .. MaxEvents : \A d \in Dsts \ {Unknown} :
        (/\ i <= Len(sent)
         /\ \E j \in 1 .. Len(sent) : sent[j].dst = Unknown
         /\ sent[i].dst = d
         /\ InQueue(local_events, d, sent[i])
         /\ InSuspended(d) # {})
        ~> (\/ InSuspended(d) = {}
            \/ i <= Len(sent) /\ ~InQueue(local_events, d, sent[i])
                              /\ (coord.ev = None \/ coord.ev[1] # sent[i]))

\* C8: an activity without expected events whose initialize returned FINISH is
\* next given to process with the absence marker; it gets its one cleanup call
\* exactly when a process call of it returns FINISH, and the cleanup is its
\* last call.
C8_CleanupAfterFinish ==
    \A a \in Ids :
        (a \in Submitted /\ ~Expects(a) /\ InitFinish(a)) =>
            /\ Len(log[a]) >= 2 /\ log[a][2].op = "process" /\ log[a][2].event = None
            /\ Cardinality(Calls(a, "cleanup")) <= 1
            /\ \A i \in 1 .. Len(log[a]) :
                  /\ (log[a][i].op = "process" /\ log[a][i].ret = "FINISH")
                        => (i < Len(log[a]) /\ log[a][i + 1].op = "cleanup")
                  /\ log[a][i].op = "cleanup"
                        => (i = Len(log[a]) /\ log[a][i - 1].op = "process"
                                            /\ log[a][i - 1].ret = "FINISH")

\* C8 as stated: once the executor has let go of such an activity, it has had
\* exactly one cleanup call, and it never has two.
C8_ExactlyOne ==
    \A a \in Ids :
        (a \in Submitted /\ ~Expects(a) /\ InitFinish(a)) =>
            /\ Cardinality(Calls(a, "cleanup")) <= 1
            /\ InFlight(a) = {} => Cardinality(Calls(a, "cleanup")) = 1

\* such an activity has been cleaned up
C8_Witness ==
    \E a \in Ids : a \in Submitted /\ ~Expects(a) /\ InitFinish(a) /\ CleanedUp(a)

\* C9: initialize is called at most once per activity, it is the first call,
\* and it has returned before any other call starts.
C9_InitializeOnce ==
    \A a \in Ids :
        /\ Cardinality(Calls(a, "initialize")) <= 1
        /\ log[a] # <<>> => log[a][1].op = "initialize"
        /\ Len(log[a]) >= 2 => log[a][1].ret # "running"

\* an activity that was suspended has been reactivated
C9_Witness ==
    \E a \in Ids : \E i \in 2 .. Len(log[a]) :
        log[a][i - 1].ret = "SUSPEND" /\ log[a][i].op = "process"

\* C10: a step that takes a record out of a worker's suspended map calls
\* process with Some(event), the event is addressed to the record's identifier,
\* and the step removes it from that worker's event queue.
C10_Reactivation ==
    [][\A w \in Workers : \A a \in Ids :
          (contains_key(activities_suspended[w], a) /\ ~contains_key(activities_suspended'[w], a))
          => /\ Len(log'[a]) = Len(log[a]) + 1
             /\ LET c == log'[a][Len(log'[a])] IN
                /\ c.op = "process"
                /\ c.event # None
                /\ c.event[1].dst = a
                /\ InQueue(event_queue[w], a, c.event[1])
                /\ ~InQueue(event_queue'[w], a, c.event[1])]_vars

\* a reactivated activity is inside process, called by check_suspended_work
C10_Witness ==
    \E w \in Workers :
        /\ exec[w].pc = "process"
        /\ exec[w].caller = "check_suspended_work"
        /\ log[exec[w].activity[1].id][Len(log[exec[w].activity[1].id])].event # None

\* C11: at most one lifecycle call of an activity is executing at any time:
\* its record is in at most one executor's hands, and only the last call of
\* its history can be open.
C11_NoOverlap ==
    \A a \in Ids :
        /\ Cardinality(InFlight(a)) <= 1
        /\ \A i \in 1 .. Len(log[a]) : log[a][i].ret = "running" => i = Len(log[a])
        /\ (log[a] # <<>> /\ log[a][Len(log[a])].ret = "running") => InFlight(a) # {}

\* two executors are inside lifecycle calls of different activities, one of
\* them a reactivation
C11_Witness ==
    \E a, b \in Ids :
        /\ a # b /\ InFlight(a) # {} /\ InFlight(b) # {}
        /\ Len(log[a]) >= 2 /\ log[a][Len(log[a])].ret = "running"
        /\ log[b][Len(log[b])].ret = "running"

\* C12: an event that was sent and not yet given to a process step is in
\* exactly one place: one of the queues (event ingest, local waiting, one
\* worker's event queue), or the hands of the thread that is moving it (the
\* application inside send, the coordinator loop inside distribute_event); an
\* event is given to at most one process call, and then it is in no queue.
C12_OnePlace ==
    \A i \in 1 .. Len(sent) :
        /\ Cardinality(Deliveries(sent[i])) <= 1
        /\ InQueues(sent[i]) + Sending(sent[i]) + Distributing(sent[i])
             = IF Deliveries(sent[i]) = {} THEN 1 ELSE 0

\* C12 as stated: between its send and its delivery an event is in exactly one
\* of the queues.
C12_OneQueue ==
    \A i \in 1 .. Len(sent) :
        (Deliveries(sent[i]) = {} /\ Sending(sent[i]) = 0) => InQueues(sent[i]) = 1

\* an event sent by an activity went through the ingest queue and the local
\* waiting queue and was delivered
C12_Witness ==
    \E i \in 1 .. Len(sent) :
        /\ sent[i].src # None
        /\ Deliveries(sent[i]) # {}
        /\ \E j \in 1 .. Len(sent) : j # i /\ CountIn(local_events, sent[j]) = 1

\* C13: once done has returned Ok(true) (every executor has replied drained
\* and exited) the coordinator loop has terminated: it takes no further step.
C13_CoordinatorStopped ==
    [][done_result = "true" => coord' = coord]_vars

\* C14: a submit, send or done on a facade that has terminated (done has
\* returned Ok(true)) yields StateError: the call neither panics nor changes
\* any state of the program.
C14_StateError ==
    [][done_result = "true" =>
          \/ UNCHANGED <<facade, activity_counter, issued, sent, exec_signal>>
          \/ (done_result' = "StateError" /\ facade'.pc = "idle")]_vars

\* C15: an executor exits only while a done call is waiting for its reply, and
\* a done call that starts to wait for an executor finds no reply of an earlier
\* call in that executor's channel.
C15_NoLateExit ==
    [][\A w \in Workers :
          /\ (exec'[w].pc = "exited" /\ exec[w].pc # "exited")
                => (facade.pc = "done_wait" /\ facade.x = w)
          /\ (facade'.pc = "done_wait" /\ facade'.x = w
                /\ ~(facade.pc = "done_wait" /\ facade.x = w))
                => exec_reply[w] = <<>>]_vars

\* C16: with one worker the coordinator facade gives the done results of the
\* single-worker facade; on the single-worker facade an event that was sent to
\* an identifier that is never resident keeps done from reporting drained.
C16_SameDone ==
    done_result = "true" => \A i \in 1 .. Len(sent) : sent[i].dst # Unknown

\* C17: when the application has submitted MaxActs independent activities
\* (no events expected, no call suspends), every worker has been assigned a
\* number of them within a fifth of the mean MaxActs / NW (8 to 12 of 40 on 4
\* workers), whatever the executors did between the submissions.
C17_Balanced ==
    (/\ Len(issued) = MaxActs
     /\ \A i \in 1 .. Len(issued) : ~issued[i].expects_events
     /\ NoSuspend)
    => \A w \in Workers :
          /\ 10 * NW * Cardinality(Assigned(w)) >= 8 * MaxActs
          /\ 10 * NW * Cardinality(Assigned(w)) <= 12 * MaxActs

\* C18: in the hello-world run on one worker the collector's process is called
\* exactly once, with the event whose source is the sender; the collector and
\* the sender are each cleaned up once; the done call made after the collector
\* has the event reports drained.  All of this eventually holds for good.
C18_HelloWorld == <>[]HelloDone

\* the run on the single-worker facade has ended with that outcome
C18_Witness ==
    /\ HelloDone
    /\ thread_count = 1 /\ ~multi_threaded
    /\ ndone = 1 /\ exec[0].pc = "exited"

\* C19: an event that a running activity has sent to an activity that lives on
\* some worker is eventually in a worker's event queue under the destination's
\* key (or already given to its process step), unless the destination is
\* cleaned up first.
C19_EventuallyQueued ==
    \A i \in 1 .. MaxEvents : \A d \in Dsts \ {Unknown} :
        Relayed(i, d) ~> (Queued(i, d) \/ CleanedUp(d))

\* C20: the divide-and-conquer vector add of two equal vectors ends with the
\* collector holding exactly one event whose payload is the element-wise sum
\* in index order, whatever the number of workers and the order in which the
\* two child results reach their parent, and with done reporting drained.
C20_VectorAdd == <>[]VecDone

\* the result of the second child reached the base activity first, and the
\* run on the coordinator facade has ended with the sum in index order
C20_Witness ==
    /\ VecDone
    /\ multi_threaded
    /\ \E i \in Calls(Root, "process") :
          /\ log[Root][i].event # None
          /\ \E j \in Calls(Root, "process") :
                /\ j > i /\ log[Root][j].event # None
                /\ log[Root][j].event[1].src[1] < log[Root][i].event[1].src[1]

\* C21: remove(dst) returns the oldest event that was inserted for dst and
\* not yet removed; for a dst without a queued event it returns the absence
\* marker and leaves the queue as it is.
C21_Oldest ==
    \A dst \in Dsts :
        LET data == event_queue[0]
            q == {e \in Pending(data) : e.dst = dst}
            r == remove(data, dst)
        IN  IF q = {}
            THEN r.event = None /\ r.data = data
            ELSE r.event = Some(CHOOSE e \in q : \A f \in q : e.eid <= f.eid)

\* C22: no key of an EventQueue maps to an empty vector: contains_key and keys
\* report exactly the destinations with a queued event, and is_empty is true
\* exactly when no event is queued.
C22_NoEmptyEntry ==
    LET data == event_queue[0]
        queued(dst) == {e \in Pending(data) : e.dst = dst}
    IN  /\ \A k \in DOMAIN data : Len(data[k]) > 0
        /\ \A dst \in Dsts : contains_key(data, dst) <=> queued(dst) # {}
        /\ keys(data) = {dst \in Dsts : queued(dst) # {}}
        /\ is_empty(data) <=> Pending(data) = {}

\* an entry was erased by the remove of its last event while another
\* destination still has events
C22_Witness ==
    \E i, j \in 1 .. Len(sent) :
        /\ sent[i].dst # sent[j].dst
        /\ sent[i] \notin Pending(event_queue[0])
        /\ ~contains_key(event_queue[0], sent[i].dst)
        /\ sent[j] \in Pending(event_queue[0])

\* the worker with the smallest |runnable| + |suspended| in the current state,
\* the lowest index among equals
LeastNow ==
    Min({w \in 0 .. (thread_count - 1) :
            \A v \in 0 .. (thread_count - 1) : length(w) <= length(v)})

\* the step inserts one record, keyed by its own identifier, into the runnable
\* map of worker `index` and changes no other runnable map
InsertedAt(index) ==
    /\ \E k \in Ids :
          /\ k \notin DOMAIN activities[index]
          /\ DOMAIN activities'[index] = DOMAIN activities[index] \cup {k}
          /\ activities'[index][k].id = k
          /\ \A x \in DOMAIN activities[index] : activities'[index][x] = activities[index][x]
    /\ \A w \in Workers \ {index} : activities'[w] = activities[w]

\* a step of the application's submit or of the coordinator's distribute_activity
\* that ends with the insertion
InsertStep(old, new, pc) == old.pc = pc /\ new.pc # pc

\* a step of get_thread_with_least_work that reads a worker: the one that
\* starts the scan reads worker 0
ReadStep(old, new, pc) == new.pc = pc /\ (old.pc # pc \/ new.i # old.i)

\* the worker read becomes the choice when it is the first or when its sum,
\* as read in this step, is strictly below the smallest read so far
ReadOK(old, new, pc) ==
    LET first == old.pc # pc
        i == IF first THEN 0 ELSE old.i
        less == first \/ length(i) < old.shortest
    IN  /\ new.i = i + 1
        /\ new.index = IF less THEN i ELSE old.index
        /\ new.shortest = IF less THEN length(i) ELSE old.shortest

ScanDone(old, new, pc) == new.pc = pc /\ old.pc # pc

\* a step in which distribute_event inserts the event old.ev
PutStep(old, new, pc) == old.pc = pc /\ new.pc # pc

\* the workers whose runnable or suspended map contains dst
HoldersNow(dst) == {w \in 0 .. (thread_count - 1) : w \in InRunnable(dst) \cup InSuspended(dst)}

\* the scan's result is the lowest-index worker that holds the destination,
\* or nobody
TargetOK(new) ==
    LET holders == HoldersNow(new.ev[1].dst) IN
    IF holders = {} THEN new.target = None
    ELSE /\ new.target # None
         /\ new.target[1] \in holders
         /\ \A v \in holders : new.target[1] <= v

\* the step puts event e into the queue that the scan chose, under the key of
\* its destination, and into no other queue
PutAt(target, e) ==
    IF target = None
    THEN /\ CountIn(local_events', e) = CountIn(local_events, e) + 1
         /\ InQueue(local_events', e.dst, e)
         /\ event_queue' = event_queue
    ELSE /\ CountIn(event_queue'[target[1]], e) = CountIn(event_queue[target[1]], e) + 1
         /\ InQueue(event_queue'[target[1]], e.dst, e)
         /\ \A v \in Workers \ {target[1]} : event_queue'[v] = event_queue[v]
         /\ local_events' = local_events

\* C24, first part: distribute_event puts the event into exactly one queue,
\* the event queue of the lowest-index worker whose runnable or suspended map
\* contained the destination when the scan looked, or the local waiting queue
\* when no worker's did.
C24_ScanTarget ==
    [][/\ ScanDone(facade, facade', "send") => TargetOK(facade')
       /\ ScanDone(coord, coord', "ev_insert") => TargetOK(coord')
       /\ PutStep(facade, facade', "send") => PutAt(facade.target, facade.ev[1])
       /\ PutStep(coord, coord', "ev_insert") => PutAt(coord.target, coord.ev[1])]_vars

\* worker w has the record of a: in its runnable map, in its suspended map or
\* in its executor's hands
Holds(w, a) == w \in InRunnable(a) \cup InSuspended(a) \cup InFlight(a)

\* C24: distribute_event never puts an event into the event queue of a worker
\* that does not hold the destination.
C24_HolderAtInsert ==
    [][/\ (PutStep(facade, facade', "send") /\ facade.target # None)
             => Holds(facade.target[1], facade.ev[1].dst)
       /\ (PutStep(coord, coord', "ev_insert") /\ coord.target # None)
             => Holds(coord.target[1], coord.ev[1].dst)]_vars

\* an event sent by an activity of worker 0 has been put into the event queue
\* of worker 1, whose suspended map holds the destination
RelayedAcross ==
    \E i \in 1 .. Len(sent) :
        /\ sent[i].src # None
        /\ issued[sent[i].src[1] + 1].thread_id = 0
        /\ InQueue(event_queue[1], sent[i].dst, sent[i])
        /\ 1 \in InSuspended(sent[i].dst)

\* worker w's executor is in initialize of a record, and in this step the call
\* returns FINISH
InitFinishes(w) ==
    /\ exec[w].pc = "initialize" /\ exec'[w].pc # "initialize"
    /\ LET a == exec[w].activity[1].id IN log'[a][Len(log[a])].ret = "FINISH"

\* C25 (as amended): when a fresh activity created with expects_events=false
\* returns FINISH from initialize, the executor keeps the record and calls
\* process with the absence marker; it calls cleanup only when a process call
\* has returned FINISH, and the record is dropped when cleanup has returned.
C25_ProcessNone ==
    [][\A w \in Workers :
          /\ (InitFinishes(w) /\ ~exec[w].activity[1].expects_events) =>
                LET a == exec[w].activity[1].id IN
                /\ exec'[w].pc = "process"
                /\ exec'[w].activity = exec[w].activity
                /\ log'[a] = Append(Returned(log[a], "FINISH"), Call("process", None))
          /\ (exec[w].pc # "cleanup" /\ exec'[w].pc = "cleanup") =>
                LET a == exec[w].activity[1].id IN
                /\ exec[w].pc = "process"
                /\ log'[a][Len(log[a])] = [log[a][Len(log[a])] EXCEPT !.ret = "FINISH"]
          /\ (exec[w].pc = "cleanup" /\ exec'[w].pc # "cleanup") =>
                LET a == exec[w].activity[1].id IN
                /\ exec'[w].activity = None
                /\ \A v \in Workers : ~contains_key(activities'[v], a)
                                      /\ ~contains_key(activities_suspended'[v], a)]_vars

\* C25 (as stated): when such an activity returns FINISH from initialize, the
\* executor's next call on it is cleanup.
C25_CleanupNext ==
    [][\A w \in Workers :
          (InitFinishes(w) /\ ~exec[w].activity[1].expects_events) =>
              exec'[w].pc = "cleanup"]_vars

\* an activity that expects no events is inside the process call that
\* run_activity made, with the absence marker, after its initialize returned
\* FINISH
C25_Witness ==
    \E w \in Workers :
        /\ exec[w].pc = "process" /\ exec[w].caller = "run"
        /\ ~exec[w].activity[1].expects_events
        /\ LET l == log[exec[w].activity[1].id] IN
           Len(l) = 2 /\ l[1].ret = "FINISH" /\ l[2] = Call("process", None)

\* C26: when a fresh activity created with expects_events=true returns FINISH
\* from initialize, the executor moves it to the suspended map if the worker's
\* event queue holds no event for its identifier, and otherwise removes one
\* such event and calls process with it; an activity that expects events is
\* never given the absence marker.
C26_EventOrSuspend ==
    [][/\ \A w \in Workers :
            (InitFinishes(w) /\ exec[w].activity[1].expects_events) =>
                LET activity == exec[w].activity[1]
                    a == activity.id
                IN  IF ~contains_key(event_queue[w], a)
                    THEN /\ contains_key(activities_suspended'[w], a)
                         /\ activities_suspended'[w][a] = activity
                         /\ exec'[w].activity = None
                         /\ log'[a] = Returned(log[a], "FINISH")
                         /\ event_queue' = event_queue
                    ELSE /\ exec'[w].pc = "process"
                         /\ exec'[w].activity = exec[w].activity
                         /\ ~contains_key(activities_suspended'[w], a)
                         /\ Len(log'[a]) = Len(log[a]) + 1
                         /\ LET c == log'[a][Len(log'[a])] IN
                            /\ c.op = "process" /\ c.event # None
                            /\ c.event[1].dst = a
                            /\ InQueue(event_queue[w], a, c.event[1])
                            /\ CountIn(event_queue'[w], c.event[1])
                                  = CountIn(event_queue[w], c.event[1]) - 1
                            /\ Cardinality(Pending(event_queue'[w]))
                                  = Cardinality(Pending(event_queue[w])) - 1
       /\ \A a \in Ids : Expects(a)' =>
             \A i \in Calls(a, "process")' : log'[a][i].event # None]_vars

\* an activity that expects events is inside the process call that
\* run_activity made with an event that was waiting in the queue when its
\* initialize returned FINISH
C26_Witness ==
    \E w \in Workers :
        /\ exec[w].pc = "process" /\ exec[w].caller = "run"
        /\ exec[w].activity[1].expects_events
        /\ LET l == log[exec[w].activity[1].id] IN
           Len(l) = 2 /\ l[1].ret = "FINISH" /\ l[2].event # None

\* an activity that expects events was suspended by run_activity after its
\* initialize returned FINISH with no event waiting
C26_Suspended ==
    \E w \in Workers : \E a \in DOMAIN activities_suspended[w] :
        /\ activities_suspended[w][a].expects_events
        /\ log[a] = <<[op |-> "initialize", event |-> None, ret |-> "FINISH"]>>

\* worker w's executor takes a shutdown signal from its control channel
TakesSignal(w) ==
    /\ exec_signal[w] # <<>> /\ Head(exec_signal[w])
    /\ exec_signal'[w] = Tail(exec_signal[w])

\* nothing is in worker w's runnable map, suspended map or event queue
Drained(w) ==
    /\ DOMAIN activities[w] = {}
    /\ DOMAIN activities_suspended[w] = {}
    /\ Pending(event_queue[w]) = {}

C27_Exited ==
    \E w \in Workers : exec[w].pc = "exited" /\ exec_reply[w] = <<TRUE>>

\* C28: after the first done call of a run has returned not-drained, every
\* worker's executor is still running (so that work submitted afterwards is
\* still initialized and a later done call is still answered by every worker).
C28_StillRunning ==
    (ndone = 1 /\ done_result = "false") => \A w \in Workers : exec[w].pc # "exited"

\* worker w's executor takes a record out of its runnable map
TakesRunnable(w) == exec[w].pc # "initialize" /\ exec'[w].pc = "initialize"

\* a lifecycle call returns and the record leaves the executor's hands
LetsGo(w) == InStep(w) /\ ~InStep(w)'

\* C29 (as amended): one iteration of the executor loop does the three steps
\* one after the other: it checks the suspended records if the suspended map
\* is not empty, then attempts to take one runnable record, whatever the
\* suspended map holds and whatever the check did, then waits on the control
\* channel, whether it has run an activity or not.
C29_ThreeSteps ==
    [][\A w \in Workers :
          /\ TakesRunnable(w) =>
                /\ exec[w].pc \in {"loop", "work", "idle"}
                /\ exec[w].pc = "loop" => DOMAIN activities_suspended[w] = {}
          /\ (exec[w].pc = "loop" /\ DOMAIN activities_suspended[w] # {} /\ exec'[w] # exec[w])
                => exec'[w].pc \in {"scan", "idle"}
          /\ (LetsGo(w) /\ exec[w].caller = "check_suspended_work")
                => exec'[w].pc \in {"scan", "work"}
          /\ (LetsGo(w) /\ exec[w].caller = "run") => exec'[w].pc = "signal"
          /\ TakesSignal(w) => exec[w].pc \in {"signal", "idle"}]_vars

\* C29 (as stated, first part): a runnable record is taken from the runnable
\* map only when the suspended map is empty.
C29_Exclusive ==
    [][\A w \in Workers :
          TakesRunnable(w) => DOMAIN activities_suspended[w] = {}]_vars

\* an executor has taken a runnable record and called its initialize while
\* its suspended map holds a record for which an event is waiting
C29_Witness ==
    \E w \in Workers :
        /\ exec[w].pc = "initialize"
        /\ \E a \in DOMAIN activities_suspended[w] : contains_key(event_queue[w], a)

\* the coordinator loop ends an iteration: the shutdown check is done
IterationEnds == coord.pc = "shutdown" /\ coord'.pc # "shutdown"

\* C30: an iteration of the coordinator loop drains the activity ingest queue:
\* no activity that was in the ingest queue when the iteration started is
\* still in it when the iteration ends.  (Under SpecIngest activities enter the
\* ingest queue only between two iterations, so whatever is in it at the end
\* of an iteration was in it when the iteration started.)
C30_Drains ==
    [][IterationEnds => activities_from_threads = <<>>]_vars

\* the event that a send of worker w's running activity to dst creates
HandleEvent(w, dst) == Event(Len(sent) + 1, Some(exec[w].activity[1].id), dst)

\* the step is a send of the activity that worker w's executor is running
HandleSend(w, dst) == InStep(w) /\ sent' = Append(sent, HandleEvent(w, dst))

\* the record of a is in worker w's runnable map or suspended map
InMaps(w, a) == w \in InRunnable(a) \cup InSuspended(a)

\* C31: a send on worker w's handle puts the event into exactly one queue: on
\* the single-worker facade always w's own event queue; on the coordinator
\* facade w's own event queue when the destination is in w's runnable or
\* suspended map as send checks them, and the event ingest queue otherwise.
C31_HandleSend ==
    [][\A w \in Workers : \A dst \in Dsts : HandleSend(w, dst) =>
          \A e \in {HandleEvent(w, dst)} :
          /\ InQueues(e)' = 1
          /\ IF ~multi_threaded \/ InMaps(w, dst)
             THEN /\ InQueue(event_queue'[w], dst, e)
                  /\ events_from_threads' = events_from_threads
             ELSE /\ events_from_threads' = Append(events_from_threads, e)
                  /\ event_queue' = event_queue]_vars

\* on the coordinator facade a running activity of worker w has sent an event
\* to an activity in w's runnable map, and the event is in w's event queue
\* while the coordinator loop has had nothing to distribute
C31_Witness ==
    /\ multi_threaded
    /\ coord.pc = "idle"
    /\ \E w \in Workers : \E i \in 1 .. Len(sent) :
          /\ sent[i].src # None
          /\ InFlight(sent[i].src[1]) = {w}
          /\ w \in InRunnable(sent[i].dst)
          /\ InQueue(event_queue[w], sent[i].dst, sent[i])

\* thread t holds a lock and its call of lock for a second one returns: from
\* here until the first guard is released it holds both
HoldsTwo(t) == Held(t) # {} /\ Takes(t) # {} /\ Free(t, Takes(t))

\* C32: no thread ever holds two of a worker's locks (runnable map, suspended
\* map, event queue) at the same time.
C32_OneLock == \A t \in Threads : ~HoldsTwo(t)

C34_NoCircularWait ==
    \A w \in Workers : ~(Blocked(w) /\ exec_reply[w] = <<>>)

\* C35: a record in worker w's runnable map is eventually initialized, also
\* while w's suspended map holds records for which no event ever arrives.
C35_FreshWork ==
    \A w \in Workers : \A a \in Ids :
        (contains_key(activities[w], a) /\ ~is_empty(activities_suspended[w]))
            ~> (log[a] # <<>>)

\* an executor is inside initialize of a record while its suspended map holds
\* another record, and no event was ever sent
C35_Witness ==
    \E w \in Workers :
        /\ exec[w].pc = "initialize"
        /\ ~is_empty(activities_suspended[w])
        /\ sent = <<>>

\* activities were submitted, and the cleanup of every one of them has returned
AllTerminated == Submitted # {} /\ \A a \in Submitted : CleanedUp(a)

\* Drain: on the single-worker facade the application submits, and sends to
\* activities it has submitted; once every activity has terminated it calls
\* done, again if done returns not-drained, and does nothing else.
\* Every thread keeps taking steps.
NextDrain ==
    \/ \E w \in Workers : Executor(w) \/ A_Return(w)
    \/ (S_Submit /\ ndone = 0)
    \/ (S_Send /\ ndone = 0 /\ sent'[Len(sent')].dst \in Submitted)
    \/ (S_Done /\ AllTerminated /\ done_result # "true") \/ S_DoneReply

SpecDrain ==
    /\ InitSingle /\ [][NextDrain]_vars
    /\ \A w \in Workers : WF_vars(Executor(w)) /\ WF_vars(A_Return(w))
    /\ WF_vars((S_Done /\ AllTerminated /\ done_result # "true") \/ S_DoneReply)

\* C36: once every submitted activity has terminated and done has been called,
\* with no submit or send after that, a done call eventually returns drained.
C36_EventuallyDrained ==
    (AllTerminated /\ ndone > 0) ~> (done_result = "true")

\* the place of a worker lock in the order runnable map, suspended map,
\* event queue
Rank(kind) == CASE kind = "runnable" -> 1 [] kind = "suspended" -> 2 [] kind = "events" -> 3
\* thread t waits for a lock that thread u holds
WaitsFor(t, u) == t # u /\ Takes(t) \cap Held(u) # {}

\* C37: a thread that takes a worker lock while it holds another one takes a
\* lock of the same worker that comes later in the order runnable map,
\* suspended map, event queue; and in no state is there a set of threads each
\* of which waits for a worker lock held by another thread of the set.
C37_LockOrder ==
    /\ \A t \in Threads : \A h \in Held(t) : \A l \in Takes(t) :
          h[1] = l[1] /\ Rank(h[2]) < Rank(l[2])
    /\ \A S \in SUBSET Threads \ {{}} :
          \E t \in S : \A u \in S : ~WaitsFor(t, u)
\* a thread holds the runnable map of a worker and takes the next lock of the
\* order while another thread waits for the lock it holds
C37_Witness ==
    \E t \in Threads : \E u \in Threads :
        /\ Held(t) # {} /\ Takes(t) # {} /\ Free(t, Takes(t))
        /\ WaitsFor(u, t)


\* worker w has the record of activity a: in one of its maps or in the hands
\* of its executor
HasRecord(w, a) == InMaps(w, a) \/ w \in InFlight(a)
\* a scan of distribute_event ends in this step with worker w as its result
ScanFound(w, a) ==
    \/ /\ coord.pc # "ev_insert" /\ coord'.pc = "ev_insert"
       /\ coord'.target = Some(w) /\ coord'.ev[1].dst = a
    \/ /\ facade.pc # "send" /\ facade'.pc = "send"
       /\ facade'.target = Some(w) /\ facade'.ev[1].dst = a
\* the insertion of distribute_event that follows a scan with result w
ScanInsert(w, e) ==
    \/ coord.pc = "ev_insert" /\ coord.ev = Some(e) /\ coord.target = Some(w)
    \/ facade.pc = "send" /\ facade.ev = Some(e) /\ facade.target = Some(w)

\* C38: with the coordinator facade, a scan of distribute_event names worker w
\* only when the destination is in w's runnable or suspended map; an event
\* enters w's event queue only after such a scan or, sent through the handle,
\* when the destination is in w's maps; and the record of an activity that
\* worker w has stays with w until its cleanup has returned, after which no
\* worker has it.
C38_AssignedWorker ==
    [][multi_threaded =>
        \A w \in Workers :
          /\ \A a \in Ids :
               /\ ScanFound(w, a) => InMaps(w, a)
               /\ HasRecord(w, a) => HasRecord(w, a)' \/ CleanedUp(a)'
               /\ CleanedUp(a) => ~HasRecord(w, a)'
          /\ \A e \in {sent'[i] : i \in 1 .. Len(sent')} :
               CountIn(event_queue'[w], e) > CountIn(event_queue[w], e)
                  => InMaps(w, e.dst) \/ ScanInsert(w, e)
    ]_vars
\* an event that an activity running on worker 0 sent is in the event queue
\* of worker 1, which has the record of the destination
C38_Witness ==
    /\ multi_threaded
    /\ \E e \in {sent[i] : i \in 1 .. Len(sent)} :
          /\ e.src # None /\ 0 \in InFlight(e.src[1])
          /\ CountIn(event_queue[1], e) = 1
          /\ HasRecord(1, e.dst)


\* the lifecycle call that executor w is in was made with the identifier of
\* the wrapper it was made on
OwnIdentifier(w) ==
    LET id == exec[w].activity[1].id IN
    /\ log[id] # <<>>
    /\ log[id][Len(log[id])].op = exec[w].pc
    /\ log[id][Len(log[id])].ret = "running"

\* C39: every record in a runnable or suspended map is stored under its own
\* identifier, and every initialize and process call of an executor is made
\* with the identifier of the wrapper it is made on, so that the assert_eq! of
\* ActivityWrapper::initialize and ActivityWrapper::process holds.
C39_OwnIdentifier ==
    \A w \in Workers :
        /\ \A k \in DOMAIN activities[w] : activities[w][k].id = k
        /\ \A k \in DOMAIN activities_suspended[w] : activities_suspended[w][k].id = k
        /\ exec[w].pc \in {"initialize", "process"} => OwnIdentifier(w)
\* an executor is inside process on a record that check_suspended_work took
\* from the suspended map by its key, while another record is suspended
C39_Witness ==
    \E w \in Workers :
        /\ exec[w].pc = "process" /\ exec[w].caller = "check_suspended_work"
        /\ activities_suspended[w] # EmptyMap

====
